---------------------------- MODULE Spec2Model ----------------------------
(***************************************************************************)
(* A model of the NvTriStrip stripifier: GenerateStrips and the            *)
(* NvStripifier pipeline behind it (BuildStripifyInfo, FindAllStrips,      *)
(* SplitUpStripsAndOptimize, RemoveSmallStrips, CreateStrips).             *)
(*                                                                         *)
(* Pointers are indices into a heap sequence; 0 is nullptr.  Faces live in *)
(* the heap "faces" (real faces, dropped duplicates and the synthesized    *)
(* degenerates of every experiment), edges in the heap "edges".            *)
(***************************************************************************)
EXTENDS Integers, Sequences, FiniteSets, TLC

(***************************************************************************)
(* Bounds of the model.                                                    *)
(***************************************************************************)
\* the largest number of triangles in the input index list
MaxTris == 3

\* the triangles the input is drawn from: a strip 012/213/234, a fan around
\* vertex 1 (012/213/314), rotated and reversed copies of 012, a degenerate,
\* and 034, which shares no edge with 012 and 213 and is a third face on
\* edge 3-4 beside 234 and 314
TriPool ==
    { <<0, 1, 2>>, <<2, 1, 3>>, <<2, 3, 4>>, <<3, 1, 4>>,
      <<1, 2, 0>>, <<0, 2, 1>>, <<0, 0, 1>>, <<0, 3, 4>> }

\* one more input: two triangles with no vertex in common
DisjointPair == << 0, 1, 2, 3, 4, 5 >>

\* and one more: a triangle and a pair of triangles on the edge 2-4, with
\* the vertex 2 in common
VertexFan == << 0, 1, 2, 2, 3, 4, 2, 4, 5 >>

\* and one more: a band of four triangles that turns around the vertex 2
\* and around the vertex 3
TurningBand == << 1, 2, 0, 1, 3, 2, 3, 4, 2, 3, 5, 4 >>

\* the values given to SetCacheSize: thresholds 1, 2 and 10
CacheSizes == {7, 8, 16}

\* the values given to SetMinStripSize
MinStripSizes == {0, 2, 4, 5}

(***************************************************************************)
(* Program constants.                                                      *)
(***************************************************************************)
CACHE_INEFFICIENCY == 6
numSamples == 10
\* std::numeric_limits<size_t>::max(), the mark of an index not seen yet; the
\* counter of new indices never reaches it
NotCached == -1

(***************************************************************************)
(* State.                                                                  *)
(***************************************************************************)
VARIABLES
    pc,                 \* position in GenerateStrips / Stripify
    in_indices,         \* the caller's index list
    cacheSize,          \* NvTriStrip.cpp statics set by the Set* functions
    bStitchStrips,
    minStripSize,
    bListsOnly,
    index,              \* BuildStripifyInfo: next slot of indices to read
    faces,              \* heap of NvFaceInfo
    edges,              \* heap of NvEdgeInfo
    faceInfos,          \* allFaceInfos: face pointers
    edgeInfos,          \* allEdgeInfos: per vertex, head of its edge chain
    meshJump,           \* NvStripifier::meshJump, a float32 in units of 2^-28
    bFirstTimeResetPoint,
    experimentId,       \* FindAllStrips locals that live across rounds
    stripId,
    allStrips,          \* the committed strips
    splitCtr,           \* SplitUpStripsAndOptimize: next strip to split
    tempStrips,         \* the pieces
    tempStrips2,        \* the pieces RemoveSmallStrips kept
    outFaceList,        \* the leftover faces
    outStrips,          \* the pieces in emission order
    stripIndices,       \* CreateStrips' stream
    numSeparateStrips,
    primGroups,         \* the groups handed back to the caller
    asserts,            \* the assertions that failed (a debug build aborts)
    deletedFaces,       \* the faces given to delete, in order
    deletedEdges,       \* the edges deleted by Unref, in order
    freedReads,         \* the edges read after they were deleted
    firstGroups,        \* the caller's copy of the groups of its first call
    remappedGroups      \* the groups RemapIndices hands back

vars == << pc, in_indices, cacheSize, bStitchStrips, minStripSize, bListsOnly,
           index, faces, edges, faceInfos, edgeInfos, meshJump,
           bFirstTimeResetPoint, experimentId, stripId, allStrips,
           splitCtr, tempStrips, tempStrips2, outFaceList, outStrips,
           stripIndices, numSeparateStrips, primGroups, asserts,
           deletedFaces, deletedEdges, freedReads, firstGroups,
           remappedGroups >>

(***************************************************************************)
(* Sequences.                                                              *)
(***************************************************************************)
Reverse(s) == [i \in 1..Len(s) |-> s[Len(s) + 1 - i]]

Max(a, b) == IF a > b THEN a ELSE b

RECURSIVE Flatten(_)
Flatten(ts) ==
    IF ts = << >> THEN << >> ELSE Head(ts) \o Flatten(Tail(ts))

RECURSIVE SeqsUpTo(_, _)
SeqsUpTo(S, n) ==
    IF n = 0 THEN { << >> }
    ELSE LET shorter == SeqsUpTo(S, n - 1)
         IN  shorter \cup { Append(s, x) : s \in shorter, x \in S }

RECURSIVE MaxOfSeq(_)
MaxOfSeq(s) ==
    IF s = << >> THEN 0 ELSE Max(Head(s), MaxOfSeq(Tail(s)))

(***************************************************************************)
(* NvFaceInfo and NvEdgeInfo.                                              *)
(***************************************************************************)
NvFaceInfo(v0, v1, v2) ==
    [ m_v0 |-> v0, m_v1 |-> v1, m_v2 |-> v2,
      m_stripId |-> -1, m_testStripId |-> -1, m_experimentId |-> -1 ]

NvEdgeInfo(v0, v1) ==
    [ m_v0 |-> v0, m_v1 |-> v1, m_face0 |-> 0, m_face1 |-> 0,
      m_nextV0 |-> 0, m_nextV1 |-> 0, m_refCount |-> 2 ]

IsDegenerate(v0, v1, v2) == v0 = v1 \/ v0 = v2 \/ v1 = v2

IsDegenerateFace(f) == IsDegenerate(f.m_v0, f.m_v1, f.m_v2)

\* FindEdgeInfo: walk the chain of v0
RECURSIVE FindEdgeWalk(_, _, _, _)
FindEdgeWalk(E, infoIter, v0, v1) ==
    IF infoIter = 0 THEN 0
    ELSE IF E[infoIter].m_v0 = v0
         THEN IF E[infoIter].m_v1 = v1 THEN infoIter
              ELSE FindEdgeWalk(E, E[infoIter].m_nextV0, v0, v1)
         ELSE IF E[infoIter].m_v0 = v1 THEN infoIter
              ELSE FindEdgeWalk(E, E[infoIter].m_nextV1, v0, v1)

FindEdgeInfo(E, EI, v0, v1) == FindEdgeWalk(E, EI[v0], v0, v1)

\* FindOtherFace: the face on the edge that is not faceInfo; nullptr for the
\* edge (v, v) of a degenerate, which is in no chain
FindOtherFace(E, EI, v0, v1, faceInfo) ==
    LET Other(edgeInfo) ==
            IF edgeInfo = 0 THEN 0
            ELSE IF E[edgeInfo].m_face0 = faceInfo THEN E[edgeInfo].m_face1
                 ELSE E[edgeInfo].m_face0
    IN  Other(FindEdgeInfo(E, EI, v0, v1))

AlreadyExists(F, faceInfo, FI) ==
    \E i \in 1..Len(FI) :
        /\ F[FI[i]].m_v0 = F[faceInfo].m_v0
        /\ F[FI[i]].m_v1 = F[faceInfo].m_v1
        /\ F[FI[i]].m_v2 = F[faceInfo].m_v2

(***************************************************************************)
(* BuildStripifyInfo: one edge of the triangle being added.  t is the      *)
(* record [E, EI, mightExist, updated, edge] threaded through the three    *)
(* edges.                                                                  *)
(***************************************************************************)
\* an edge put at the head of the chain of its first vertex only
GrabEdge_OneChain(t, va, vb, faceInfo) ==
    LET new == Len(t.E) + 1
        rec == [ NvEdgeInfo(va, vb) EXCEPT
                   !.m_nextV0 = t.EI[va],
                   !.m_face0  = faceInfo ]
        Grab(found) ==
            IF found = 0
            THEN [ E |-> Append(t.E, rec),
                   EI |-> [ t.EI EXCEPT ![va] = new ],
                   mightExist |-> FALSE,
                   updated |-> Append(t.updated, FALSE),
                   edge |-> Append(t.edge, new) ]
            ELSE IF t.E[found].m_face1 # 0
                 THEN [ t EXCEPT !.updated = Append(t.updated, FALSE),
                                 !.edge = Append(t.edge, found) ]
                 ELSE [ t EXCEPT !.E = [ t.E EXCEPT ![found].m_face1 = faceInfo ],
                                 !.updated = Append(t.updated, TRUE),
                                 !.edge = Append(t.edge, found) ]
    IN  Grab(FindEdgeInfo(t.E, t.EI, va, vb))

GrabEdge(t, va, vb, faceInfo) ==
    LET new == Len(t.E) + 1
        rec == [ NvEdgeInfo(va, vb) EXCEPT
                   !.m_nextV0 = t.EI[va],
                   !.m_nextV1 = t.EI[vb],
                   !.m_face0  = faceInfo ]
        Grab(found) ==
            IF found = 0
            THEN [ E |-> Append(t.E, rec),
                   EI |-> [ t.EI EXCEPT ![va] = new, ![vb] = new ],
                   mightExist |-> FALSE,
                   updated |-> Append(t.updated, FALSE),
                   edge |-> Append(t.edge, new) ]
            ELSE IF t.E[found].m_face1 # 0
                 THEN [ t EXCEPT !.updated = Append(t.updated, FALSE),
                                 !.edge = Append(t.edge, found) ]
                 ELSE [ t EXCEPT !.E = [ t.E EXCEPT ![found].m_face1 = faceInfo ],
                                 !.updated = Append(t.updated, TRUE),
                                 !.edge = Append(t.edge, found) ]
    IN  Grab(FindEdgeInfo(t.E, t.EI, va, vb))

\* no cleanup of the pointers to a deleted duplicate face
UndoFaceUpdated_Keep(E, updated, edge, k) == E

\* the cleanup of the pointers to a deleted duplicate face
RECURSIVE UndoFaceUpdated(_, _, _, _)
UndoFaceUpdated(E, updated, edge, k) ==
    IF k > Len(edge) THEN E
    ELSE UndoFaceUpdated(
            IF updated[k] THEN [ E EXCEPT ![edge[k]].m_face1 = 0 ] ELSE E,
            updated, edge, k + 1)

\* one iteration of the loop over the triangles; the result is the record
\* [F, E, EI, FI]
AddTriangle(F, E, EI, FI, v0, v1, v2) ==
    IF IsDegenerate(v0, v1, v2)
    THEN [ F |-> F, E |-> E, EI |-> EI, FI |-> FI, deleted |-> << >> ]
    ELSE LET faceInfo == Len(F) + 1
             F1 == Append(F, NvFaceInfo(v0, v1, v2))
             t0 == [ E |-> E, EI |-> EI, mightExist |-> TRUE,
                     updated |-> << >>, edge |-> << >> ]
             Added(t3) ==
                 IF t3.mightExist /\ AlreadyExists(F1, faceInfo, FI)
                 THEN [ F |-> F1,
                        E |-> UndoFaceUpdated(t3.E, t3.updated, t3.edge, 1),
                        EI |-> t3.EI, FI |-> FI,
                        deleted |-> << faceInfo >> ]
                 ELSE [ F |-> F1, E |-> t3.E, EI |-> t3.EI,
                        FI |-> Append(FI, faceInfo), deleted |-> << >> ]
         IN  Added(GrabEdge(GrabEdge(GrabEdge(t0, v0, v1, faceInfo),
                                     v1, v2, faceInfo),
                            v2, v0, faceInfo))

(***************************************************************************)
(* Vertex helpers of NvStripifier.                                         *)
(***************************************************************************)
\* the vertex of faceB that faceA does not have, or -1
GetUniqueVertexInB(faceA, faceB) ==
    LET inA(v) == v = faceA.m_v0 \/ v = faceA.m_v1 \/ v = faceA.m_v2
    IN  IF ~inA(faceB.m_v0) THEN faceB.m_v0
        ELSE IF ~inA(faceB.m_v1) THEN faceB.m_v1
        ELSE IF ~inA(faceB.m_v2) THEN faceB.m_v2
        ELSE -1

\* the (at most) two vertices of faceB that faceA has too, as <<vertex0, vertex1>>
GetSharedVertices(faceA, faceB) ==
    LET inA(v) == v = faceA.m_v0 \/ v = faceA.m_v1 \/ v = faceA.m_v2
        a0 == IF inA(faceB.m_v0) THEN faceB.m_v0 ELSE -1
    IN  IF inA(faceB.m_v1) /\ a0 # -1 THEN << a0, faceB.m_v1 >>
        ELSE LET a1 == IF inA(faceB.m_v1) THEN faceB.m_v1 ELSE a0
             IN  IF inA(faceB.m_v2)
                 THEN IF a1 = -1 THEN << faceB.m_v2, -1 >>
                      ELSE << a1, faceB.m_v2 >>
                 ELSE << a1, -1 >>

\* the vertex of face that is not one of the last two of indices
GetNextIndex(indices, face) ==
    LET v0  == indices[Len(indices) - 1]
        v1  == indices[Len(indices)]
        fv0 == face.m_v0
        fv1 == face.m_v1
        fv2 == face.m_v2
    IN  IF fv0 # v0 /\ fv0 # v1 THEN fv0
        ELSE IF fv1 # v0 /\ fv1 # v1 THEN fv1
        ELSE IF fv2 # v0 /\ fv2 # v1 THEN fv2
        ELSE IF fv0 = fv1 \/ fv0 = fv2 THEN fv0
        ELSE IF fv1 = fv0 \/ fv1 = fv2 THEN fv1
        ELSE IF fv2 = fv0 \/ fv2 = fv1 THEN fv2
        ELSE -1

(***************************************************************************)
(* NvStripInfo.                                                            *)
(***************************************************************************)
NvStripInfo(startFace, startEdge, toV1, sid, eid) ==
    [ m_startFace |-> startFace, m_startEdge |-> startEdge, m_toV1 |-> toV1,
      m_faces |-> << >>, m_stripId |-> sid, m_experimentId |-> eid,
      visited |-> FALSE, m_numDegenerates |-> 0, m_Degenerates |-> << >> ]

IsExperiment(strip) == strip.m_experimentId >= 0

IsInStrip(strip, F, faceInfo) ==
    IF faceInfo = 0 THEN FALSE
    ELSE IF strip.m_experimentId >= 0
         THEN F[faceInfo].m_testStripId = strip.m_stripId
         ELSE F[faceInfo].m_stripId = strip.m_stripId

\* an IsMarked for which the mark of any experiment makes a face unavailable
IsMarked_AnyExperiment(strip, face) ==
    face.m_stripId >= 0 \/ (IsExperiment(strip) /\ face.m_experimentId >= 0)

\* an IsMarked that does not look at the mark of a committed strip
IsMarked_ExperimentOnly(strip, face) ==
    IsExperiment(strip) /\ face.m_experimentId = strip.m_experimentId

IsMarked(strip, face) ==
    \/ face.m_stripId >= 0
    \/ IsExperiment(strip) /\ face.m_experimentId = strip.m_experimentId

MarkTriangle(strip, F, faceInfo) ==
    IF IsExperiment(strip)
    THEN [ F EXCEPT ![faceInfo].m_experimentId = strip.m_experimentId,
                    ![faceInfo].m_testStripId  = strip.m_stripId ]
    ELSE [ F EXCEPT ![faceInfo].m_experimentId = -1,
                    ![faceInfo].m_stripId      = strip.m_stripId ]

\* TRUE iff some vertex of face is in no face of faceVec
Unique(F, faceVec, face) ==
    LET has(v) == \E i \in 1..Len(faceVec) :
                     \/ F[faceVec[i]].m_v0 = v
                     \/ F[faceVec[i]].m_v1 = v
                     \/ F[faceVec[i]].m_v2 = v
    IN  ~(has(F[face].m_v0) /\ has(F[face].m_v1) /\ has(F[face].m_v2))

\* the loop of Build that extends the strip, forward or backward.  s is the
\* record [F, list, all, scratch, nv0, nv1, nextFace, degs]
RECURSIVE BuildLoop(_, _, _, _, _)
BuildLoop(E, EI, strip, backward, s) ==
    IF s.nextFace = 0 \/ IsMarked(strip, s.F[s.nextFace]) THEN s
    ELSE IF backward /\ ~Unique(s.F, s.all, s.nextFace) THEN s
    ELSE
      LET nextFace == s.nextFace
          tempFace == Len(s.F) + 1
          \* "if ((nextNextFace == nullptr) || (IsMarked(nextNextFace)))" with
          \* a testNextFace that is there and not marked
          Swap(nextNextFace, testNextFace) ==
              /\ nextNextFace = 0 \/ IsMarked(strip, s.F[nextNextFace])
              /\ testNextFace # 0
              /\ ~IsMarked(strip, s.F[testNextFace])
          Extend(testnv1, swap) ==
              LET F1 == IF swap
                        THEN MarkTriangle(strip,
                                Append(s.F, NvFaceInfo(s.nv0, s.nv1, s.nv0)),
                                tempFace)
                        ELSE s.F
                  list1 == IF swap THEN Append(s.list, tempFace) ELSE s.list
                  scr1  == IF swap THEN Append(s.scratch, s.nv0) ELSE s.scratch
                  testnv0 == IF swap THEN s.nv0 ELSE s.nv1
              IN  [ F        |-> MarkTriangle(strip, F1, nextFace),
                    list     |-> Append(list1, nextFace),
                    all      |-> IF backward THEN Append(s.all, nextFace)
                                 ELSE s.all,
                    scratch  |-> Append(scr1, testnv1),
                    nv0      |-> testnv0,
                    nv1      |-> testnv1,
                    nextFace |-> FindOtherFace(E, EI, testnv0, testnv1, nextFace),
                    degs     |-> IF swap THEN Append(s.degs, tempFace)
                                 ELSE s.degs ]
          Step(testnv1) ==
              Extend(testnv1,
                     Swap(FindOtherFace(E, EI, s.nv1, testnv1, nextFace),
                          FindOtherFace(E, EI, s.nv0, testnv1, nextFace)))
      IN  BuildLoop(E, EI, strip, backward,
                    Step(GetNextIndex(s.scratch, s.F[nextFace])))

\* a Combine that adds the backward faces in the order they were found
Combine_BackwardAsFound(forward, backward) == backward \o forward

\* Combine: the backward faces reversed, then the forward faces
Combine(forward, backward) == Reverse(backward) \o forward

\* Build: the result is [F, strip]
Build(E, EI, F, strip) ==
    LET startFace == strip.m_startFace
        edge == E[strip.m_startEdge]
        v0 == IF strip.m_toV1 THEN edge.m_v0 ELSE edge.m_v1
        v1 == IF strip.m_toV1 THEN edge.m_v1 ELSE edge.m_v0
        Forward(v2) ==
            BuildLoop(E, EI, strip, FALSE,
              [ F |-> MarkTriangle(strip, F, startFace),
                list |-> << startFace >>, all |-> << >>,
                scratch |-> << v0, v1, v2 >>, nv0 |-> v1, nv1 |-> v2,
                nextFace |-> FindOtherFace(E, EI, v1, v2, startFace),
                degs |-> << >> ])
        Backward(v2, fwd) ==
            BuildLoop(E, EI, strip, TRUE,
              [ F |-> fwd.F,
                list |-> << >>, all |-> fwd.list,
                scratch |-> << v2, v1, v0 >>, nv0 |-> v1, nv1 |-> v0,
                nextFace |-> FindOtherFace(E, EI, v1, v0, startFace),
                degs |-> fwd.degs ])
        Combined(fwd, bwd) ==
            [ F |-> bwd.F,
              strip |-> [ strip EXCEPT
                            !.m_faces = Combine(fwd.list, bwd.list),
                            !.m_Degenerates = bwd.degs,
                            !.m_numDegenerates = Len(bwd.degs) ] ]
        BothWays(v2, fwd) == Combined(fwd, Backward(v2, fwd))
        From(v2) == BothWays(v2, Forward(v2))
    IN  From(GetNextIndex(<< v0, v1 >>, F[startFace]))

\* TRUE iff the face and the strip share an edge
SharesEdge(strip, E, EI, F, faceInfo) ==
    LET f == F[faceInfo]
        onEdge(va, vb) ==
            LET currEdge == FindEdgeInfo(E, EI, va, vb)
            IN  \/ IsInStrip(strip, F, E[currEdge].m_face0)
                \/ IsInStrip(strip, F, E[currEdge].m_face1)
    IN  onEdge(f.m_v0, f.m_v1) \/ onEdge(f.m_v1, f.m_v2) \/ onEdge(f.m_v2, f.m_v0)

\* the walk of FindTraversal along the chain of v: << untouchedFace, edgeIter >>
RECURSIVE TraversalWalk(_, _, _, _, _)
\* a walk that stops at an edge between a face of the strip and an
\* untouched face
TraversalWalk_FromStripFace(E, F, strip, v, edgeIter) ==
    IF edgeIter = 0 THEN << 0, 0 >>
    ELSE LET face0 == E[edgeIter].m_face0
             face1 == E[edgeIter].m_face1
         IN  IF /\ IsInStrip(strip, F, face0)
                /\ face1 # 0 /\ ~IsMarked(strip, F[face1])
             THEN << face1, edgeIter >>
             ELSE IF /\ IsInStrip(strip, F, face1)
                     /\ face0 # 0 /\ ~IsMarked(strip, F[face0])
             THEN << face0, edgeIter >>
             ELSE TraversalWalk(E, F, strip, v,
                    IF E[edgeIter].m_v0 = v THEN E[edgeIter].m_nextV0
                    ELSE E[edgeIter].m_nextV1)

TraversalWalk(E, F, strip, v, edgeIter) ==
    IF edgeIter = 0 THEN << 0, 0 >>
    ELSE LET face0 == E[edgeIter].m_face0
             face1 == E[edgeIter].m_face1
         IN  IF /\ face0 # 0 /\ ~IsInStrip(strip, F, face0)
                /\ face1 # 0 /\ ~IsMarked(strip, F[face1])
             THEN << face1, edgeIter >>
             ELSE IF /\ face1 # 0 /\ ~IsInStrip(strip, F, face1)
                     /\ face0 # 0 /\ ~IsMarked(strip, F[face0])
             THEN << face0, edgeIter >>
             ELSE TraversalWalk(E, F, strip, v,
                    IF E[edgeIter].m_v0 = v THEN E[edgeIter].m_nextV0
                    ELSE E[edgeIter].m_nextV1)

\* FindTraversal: [found, m_startFace, m_startEdge, m_toV1]
FindTraversal(E, EI, F, strip) ==
    LET v == IF strip.m_toV1 THEN E[strip.m_startEdge].m_v1
             ELSE E[strip.m_startEdge].m_v0
        StartInfo(w) ==
            [ found |-> w[1] # 0,
              m_startFace |-> w[1],
              m_startEdge |-> w[2],
              m_toV1 |-> IF w[2] = 0 THEN FALSE
                         ELSE IF SharesEdge(strip, E, EI, F, w[1])
                              THEN E[w[2]].m_v0 = v
                              ELSE E[w[2]].m_v1 = v ]
    IN  StartInfo(TraversalWalk(E, F, strip, v, EI[v]))

(***************************************************************************)
(* float32 arithmetic on meshJump.  A value is a whole number of units of  *)
(* 2^-28: 0.05f, 0.1f and every sum and product formed here are such.      *)
(***************************************************************************)
F32_ONE == 268435456
F32_TENTH == 26843546
F32_TWENTIETH == 13421773

\* 2^24, one more than the largest 24 bit significand
F32_SIGNIFICAND == 16777216

\* the spacing of the floats around x: the least u, a power of two from u
\* on, with x < 2^24 * u
RECURSIVE Ulp(_, _)
Ulp(x, u) == IF x \div u < F32_SIGNIFICAND THEN u ELSE Ulp(x, 2 * u)

\* round to a 24 bit significand, ties to even
RoundF32(x) ==
    LET Round(ulp) ==
            LET q == x \div ulp
                r == x % ulp
            IN  IF 2 * r > ulp \/ (2 * r = ulp /\ q % 2 = 1)
                THEN (q + 1) * ulp ELSE q * ulp
    IN  Round(Ulp(x, 1))

\* the whole part of the float product k * mj for a product of 4.0 or more,
\* which has a spacing of 32 units at least: the product is 16 * q + r with
\* r < 16, and q is rounded to the spacing, r deciding the ties
WideProduct(k, mj) ==
    LET Round(q, r) ==
            LET Spaced(u) ==
                    LET qq == q \div u
                        rem == q % u
                    IN  IF 2 * rem > u
                           \/ (2 * rem = u /\ (r > 0 \/ qq % 2 = 1))
                        THEN ((qq + 1) * u) \div F32_SIGNIFICAND
                        ELSE (qq * u) \div F32_SIGNIFICAND
            IN  Spaced(Ulp(q, 1))
    IN  Round(k * (mj \div 16) + (k * (mj % 16)) \div 16, (k * (mj % 16)) % 16)

\* (ptrdiff_t)(float(numFaces - 1) * meshJump), for numFaces > 0
JumpPoint(numFaces, mj) ==
    IF (numFaces - 1) * ((mj \div 16) + 1) < 4 * F32_SIGNIFICAND
    THEN RoundF32((numFaces - 1) * mj) \div F32_ONE
    ELSE WideProduct(numFaces - 1, mj)

\* meshJump += 0.1f; if (meshJump > 1.0f) meshJump = .05f
NextMeshJump(mj) ==
    LET Wrap(sum) == IF sum > F32_ONE THEN F32_TWENTIETH ELSE sum
    IN  Wrap(RoundF32(mj + F32_TENTH))

(***************************************************************************)
(* Reset points.  Indices into the face table are 0-based as in the code.  *)
(***************************************************************************)
\* the number of edges of the face with no face on the other side
NumMissing(E, EI, F, f) ==
    (IF FindOtherFace(E, EI, F[f].m_v0, F[f].m_v1, f) = 0 THEN 1 ELSE 0)
    + (IF FindOtherFace(E, EI, F[f].m_v1, F[f].m_v2, f) = 0 THEN 1 ELSE 0)
    + (IF FindOtherFace(E, EI, F[f].m_v2, F[f].m_v0, f) = 0 THEN 1 ELSE 0)

RECURSIVE StartPointScan(_, _, _, _, _, _, _)
StartPointScan(E, EI, F, FI, i, bestCtr, bestIndex) ==
    IF i >= Len(FI) THEN IF bestCtr = 0 THEN -1 ELSE bestIndex
    ELSE LET Scan(ctr) ==
                 IF ctr > bestCtr
                 THEN StartPointScan(E, EI, F, FI, i + 1, ctr, i)
                 ELSE StartPointScan(E, EI, F, FI, i + 1, bestCtr, bestIndex)
         IN  Scan(NumMissing(E, EI, F, FI[i + 1]))

\* a FindStartPoint with the sentinel for a table of faces without neighbors
FindStartPoint_SentinelWhenAlone(E, EI, F, FI) ==
    IF \A i \in 1..Len(FI) : NumMissing(E, EI, F, FI[i]) = 3 THEN -1
    ELSE StartPointScan(E, EI, F, FI, 0, -1, -1)

FindStartPoint(E, EI, F, FI) == StartPointScan(E, EI, F, FI, 0, -1, -1)

\* the do-while of FindGoodResetPoint; first is TRUE on entry
RECURSIVE ResetWalk(_, _, _, _, _)
ResetWalk(F, FI, i, startPoint, first) ==
    IF ~first /\ i = startPoint THEN 0
    ELSE IF F[FI[i + 1]].m_stripId < 0 THEN FI[i + 1]
    ELSE ResetWalk(F, FI, IF i + 1 >= Len(FI) THEN 0 ELSE i + 1,
                   startPoint, FALSE)

\* FindGoodResetPoint on a face table that is not empty:
\* [result, meshJump, bFirstTimeResetPoint]
FindGoodResetPoint(E, EI, F, FI, mj, bFirst) ==
    LET numFaces == Len(FI)
        Walk(startPoint) ==
            [ result |-> ResetWalk(F, FI, startPoint, startPoint, TRUE),
              meshJump |-> NextMeshJump(mj),
              bFirstTimeResetPoint |-> FALSE ]
        Start(sp0, jump) == Walk(IF sp0 = -1 THEN jump ELSE sp0)
    IN  Start(IF bFirst THEN FindStartPoint(E, EI, F, FI)
              ELSE JumpPoint(numFaces, mj),
              JumpPoint(numFaces, mj))

\* PHASE 1 of a round of FindAllStrips: the reset points, in the order found.
\* r is the record [points, meshJump, bFirst, done]
RECURSIVE CollectResetPoints(_, _, _, _, _, _)
CollectResetPoints(E, EI, F, FI, i, r) ==
    IF i >= numSamples THEN r
    ELSE LET Collect(g) ==
                 LET r1 == [ r EXCEPT !.meshJump = g.meshJump,
                                      !.bFirst = g.bFirstTimeResetPoint ]
                 IN  IF g.result = 0 THEN [ r1 EXCEPT !.done = TRUE ]
                     ELSE IF \E k \in 1..Len(r.points) : r.points[k] = g.result
                     THEN CollectResetPoints(E, EI, F, FI, i + 1, r1)
                     ELSE CollectResetPoints(E, EI, F, FI, i + 1,
                            [ r1 EXCEPT !.points = Append(r.points, g.result) ])
         IN  Collect(FindGoodResetPoint(E, EI, F, FI, r.meshJump, r.bFirst))

\* the six start infos of a reset point: edges 01, 10, 12, 21, 20, 02
SeedStarts(E, EI, F, f) ==
    LET Starts(e01, e12, e20) ==
            << << e01, TRUE >>, << e01, FALSE >>, << e12, TRUE >>,
               << e12, FALSE >>, << e20, TRUE >>, << e20, FALSE >> >>
    IN  Starts(FindEdgeInfo(E, EI, F[f].m_v0, F[f].m_v1),
               FindEdgeInfo(E, EI, F[f].m_v1, F[f].m_v2),
               FindEdgeInfo(E, EI, F[f].m_v2, F[f].m_v0))

\* the first strip of experiment k (0-based) of the round
FirstStrip(E, EI, F, points, k, sid0, eid0) ==
    LET f == points[(k \div 6) + 1]
        Seeded(st) == NvStripInfo(f, st[1], st[2], sid0 + k, eid0 + k)
    IN  Seeded(SeedStarts(E, EI, F, f)[(k % 6) + 1])

(***************************************************************************)
(* PHASE 2: one experiment.  x is the record [F, strips, stripId]; the     *)
(* last strip of x.strips is stripIter.                                    *)
(***************************************************************************)
RECURSIVE ExperimentChain(_, _, _)
ExperimentChain(E, EI, x) ==
    LET stripIter == x.strips[Len(x.strips)]
        Built(b) == [ F |-> b.F, strips |-> Append(x.strips, b.strip),
                      stripId |-> x.stripId + 1 ]
        Traverse(startInfo) ==
            IF ~startInfo.found THEN x
            ELSE ExperimentChain(E, EI,
                   Built(Build(E, EI, x.F,
                           NvStripInfo(startInfo.m_startFace,
                                       startInfo.m_startEdge, startInfo.m_toV1,
                                       x.stripId, stripIter.m_experimentId))))
    IN  Traverse(FindTraversal(E, EI, x.F, stripIter))

RunExperiment(E, EI, F, first, sid) ==
    LET Built(b) == [ F |-> b.F, strips |-> << b.strip >>, stripId |-> sid ]
    IN  ExperimentChain(E, EI, Built(Build(E, EI, F, first)))

\* all experiments of the round, in order.  y is [F, experiments, stripId];
\* k is experimentIndex, the number of experiments run so far
RECURSIVE RunExperiments(_, _, _, _, _, _, _)
RunExperiments(E, EI, points, k, sid0, eid0, y) ==
    IF Len(y.experiments) >= 6 * Len(points) THEN y
    ELSE LET Ran(x) == [ F |-> x.F,
                         experiments |-> Append(y.experiments, x.strips),
                         stripId |-> x.stripId ]
         IN  RunExperiments(E, EI, points, k + 1, sid0, eid0,
                Ran(RunExperiment(E, EI, y.F,
                      FirstStrip(E, EI, y.F, points, k, sid0, eid0),
                      y.stripId)))

(***************************************************************************)
(* PHASE 3: the scores.  AvgStripSize is the quotient sizeAccum/numStrips, *)
(* kept as the pair << sizeAccum, numStrips >>; two such quotients of      *)
(* small whole numbers compare as floats the way they compare exactly.     *)
(***************************************************************************)
RECURSIVE SizeAccum(_)
SizeAccum(strips) ==
    IF strips = << >> THEN 0
    ELSE Len(Head(strips).m_faces) - Head(strips).m_numDegenerates
         + SizeAccum(Tail(strips))

AvgStripSize(strips) == << SizeAccum(strips), Len(strips) >>

\* a comparison that lets a later experiment of equal value win
ValueGreater_OrEqual(a, b) == a[1] * b[2] >= b[1] * a[2]

\* value > bestValue
ValueGreater(a, b) == a[1] * b[2] > b[1] * a[2]

RECURSIVE BestExperiment(_, _, _, _)
BestExperiment(experiments, i, bestIndex, bestValue) ==
    IF i >= Len(experiments) THEN bestIndex
    ELSE LET Compare(value) ==
                 IF ValueGreater(value, bestValue)
                 THEN BestExperiment(experiments, i + 1, i, value)
                 ELSE BestExperiment(experiments, i + 1, bestIndex, bestValue)
         IN  Compare(AvgStripSize(experiments[i + 1]))

(***************************************************************************)
(* PHASE 4: CommitStrips.                                                  *)
(***************************************************************************)
RECURSIVE MarkFaces(_, _, _, _)
MarkFaces(strip, F, fs, k) ==
    IF k > Len(fs) THEN F
    ELSE MarkFaces(strip, MarkTriangle(strip, F, fs[k]), fs, k + 1)

\* c is the record [F, allStrips]
RECURSIVE CommitStrips(_, _, _)
RECURSIVE ExperimentDegenerates(_, _)
RECURSIVE LoserDegenerates(_, _, _)
\* a CommitStrips that appends the strips and leaves their faces unmarked
CommitStrips_Unmarked(c, strips, k) ==
    [ c EXCEPT !.allStrips = @ \o strips ]

CommitStrips(c, strips, k) ==
    IF k > Len(strips) THEN c
    ELSE LET strip == [ strips[k] EXCEPT !.m_experimentId = -1 ]
         IN  CommitStrips(
                [ F |-> MarkFaces(strip, c.F, strip.m_faces, 1),
                  allStrips |-> Append(c.allStrips, strip) ],
                strips, k + 1)

\* the degenerates a strip hands to delete when its experiment lost: the
\* first m_numDegenerates entries of m_Degenerates
StripDegenerates(strip) == SubSeq(strip.m_Degenerates, 1, strip.m_numDegenerates)

\* the degenerates of the strips j, j + 1, ... of one experiment
ExperimentDegenerates(strips, j) ==
    IF j > Len(strips) THEN << >>
    ELSE StripDegenerates(strips[j]) \o ExperimentDegenerates(strips, j + 1)

\* a FindAllStrips that destroys the losing strips and not their degenerates
LoserDegenerates_StripsOnly(experiments, i, bestIndex) == << >>

\* FindAllStrips, "destroy all of the others": the faces deleted for the
\* experiments i, i + 1, ... that are not the best one
LoserDegenerates(experiments, i, bestIndex) ==
    IF i >= Len(experiments) THEN << >>
    ELSE (IF i # bestIndex THEN ExperimentDegenerates(experiments[i + 1], 1)
          ELSE << >>)
         \o LoserDegenerates(experiments, i + 1, bestIndex)

\* one round of the while loop of FindAllStrips on a face table that is not
\* empty: [F, allStrips, stripId, experimentId, meshJump, bFirst, done,
\* experiments, bestIndex, deleted]
FindAllStripsRound(E, EI, F, FI, all, sid, eid, mj, bFirst) ==
    LET Phase4(p, y, bestIndex, c) ==
            [ F |-> c.F, allStrips |-> c.allStrips, stripId |-> y.stripId,
              experimentId |-> eid + 6 * Len(p.points),
              meshJump |-> p.meshJump, bFirst |-> p.bFirst, done |-> p.done,
              experiments |-> y.experiments, bestIndex |-> bestIndex,
              deleted |-> LoserDegenerates(y.experiments, 0, bestIndex) ]
        Phase3(p, y, bestIndex) ==
            Phase4(p, y, bestIndex,
              CommitStrips([ F |-> y.F, allStrips |-> all ],
                IF p.points = << >> THEN << >>
                ELSE y.experiments[bestIndex + 1], 1))
        Phase2(p, y) ==
            Phase3(p, y, BestExperiment(y.experiments, 0, 0, << 0, 1 >>))
        Phase1(p) ==
            Phase2(p, RunExperiments(E, EI, p.points, 0, sid, eid,
                        [ F |-> F, experiments |-> << >>,
                          stripId |-> sid + 6 * Len(p.points) ]))
    IN  Phase1(CollectResetPoints(E, EI, F, FI, 0,
                 [ points |-> << >>, meshJump |-> mj, bFirst |-> bFirst,
                   done |-> FALSE ]))

(***************************************************************************)
(* VertexCache: entries[0] is the head of the sequence.                    *)
(***************************************************************************)
VertexCache(size) == [ i \in 1..size |-> -1 ]

InCache(entries, entry) == \E i \in 1..Len(entries) : entries[i] = entry

AddEntry(entries, entry) == << entry >> \o SubSeq(entries, 1, Len(entries) - 1)

\* a reference that moves a vertex found in the cache to the head
CacheTouch_MoveToFront(entries, v) ==
    LET at == { i \in 1..Len(entries) : entries[i] = v }
        Moved(i) == << v >> \o SubSeq(entries, 1, i - 1)
                           \o SubSeq(entries, i + 1, Len(entries))
    IN  IF at = {} THEN AddEntry(entries, v)
        ELSE Moved(CHOOSE i \in at : TRUE)

CacheTouch(entries, v) ==
    IF InCache(entries, v) THEN entries ELSE AddEntry(entries, v)

UpdateCacheFace(vcache, face) ==
    CacheTouch(CacheTouch(CacheTouch(vcache, face.m_v0), face.m_v1), face.m_v2)

RECURSIVE UpdateCacheStrip(_, _, _)
UpdateCacheStrip(vcache, F, fs) ==
    IF fs = << >> THEN vcache
    ELSE UpdateCacheStrip(UpdateCacheFace(vcache, F[Head(fs)]), F, Tail(fs))

CalcNumHitsFace(vcache, face) ==
    (IF InCache(vcache, face.m_v0) THEN 1 ELSE 0)
    + (IF InCache(vcache, face.m_v1) THEN 1 ELSE 0)
    + (IF InCache(vcache, face.m_v2) THEN 1 ELSE 0)

RECURSIVE SumHits(_, _, _)
SumHits(vcache, F, fs) ==
    IF fs = << >> THEN 0
    ELSE CalcNumHitsFace(vcache, F[Head(fs)]) + SumHits(vcache, F, Tail(fs))

\* the quotient numHits/numFaces as << numHits, numFaces >>; 0 for no faces
CalcNumHitsStrip(vcache, F, fs) ==
    IF fs = << >> THEN << 0, 1 >> ELSE << SumHits(vcache, F, fs), Len(fs) >>

NumNeighbors(E, EI, F, f) ==
    (IF FindOtherFace(E, EI, F[f].m_v0, F[f].m_v1, f) # 0 THEN 1 ELSE 0)
    + (IF FindOtherFace(E, EI, F[f].m_v1, F[f].m_v2, f) # 0 THEN 1 ELSE 0)
    + (IF FindOtherFace(E, EI, F[f].m_v2, F[f].m_v0, f) # 0 THEN 1 ELSE 0)

RECURSIVE SumNeighbors(_, _, _, _)
SumNeighbors(E, EI, F, fs) ==
    IF fs = << >> THEN 0
    ELSE NumNeighbors(E, EI, F, Head(fs)) + SumNeighbors(E, EI, F, Tail(fs))

(***************************************************************************)
(* SplitUpStripsAndOptimize, the split of one committed strip.  fs is the  *)
(* strip's face list; faceCtr and leftOff are 0-based as in the code.  w   *)
(* is the record [faceCtr, degenerateCount, bFirstTime, piece, deleted,    *)
(* oob]: deleted collects the faces freed, oob tells a read past the end   *)
(* of fs.                                                                  *)
(***************************************************************************)
\* a count that takes the degenerates for real faces
NumReal_AllFaces(F, fs) == Len(fs)

NumReal(F, fs) == Cardinality({ i \in 1..Len(fs) : ~IsDegenerateFace(F[fs[i]]) })

\* the while loop that fills piece j with threshold real faces
RECURSIVE SplitWindow(_, _, _, _, _, _, _)
SplitWindow(F, fs, threshold, j, numTimes, numLeftover, w) ==
    IF w.oob \/ ~(w.faceCtr < threshold + j * threshold + w.degenerateCount)
    THEN w
    ELSE IF w.faceCtr >= Len(fs) THEN [ w EXCEPT !.oob = TRUE ]
    ELSE
      LET f == fs[w.faceCtr + 1]
      IN  IF IsDegenerateFace(F[f])
          THEN LET dc == w.degenerateCount + 1
                   keep ==
                     /\ \/ (w.faceCtr + 1) # threshold + j * threshold + dc
                        \/ j = numTimes - 1 /\ numLeftover < 4 /\ numLeftover > 0
                     /\ ~w.bFirstTime
               IN  SplitWindow(F, fs, threshold, j, numTimes, numLeftover,
                     [ w EXCEPT !.degenerateCount = dc,
                                !.faceCtr = @ + 1,
                                !.piece = IF keep THEN Append(@, f) ELSE @,
                                !.deleted = IF keep THEN @ ELSE Append(@, f) ])
          ELSE SplitWindow(F, fs, threshold, j, numTimes, numLeftover,
                 [ w EXCEPT !.faceCtr = @ + 1,
                            !.piece = Append(@, f),
                            !.bFirstTime = FALSE ])

\* "just add to last strip": numLeftover more real faces onto the last piece
RECURSIVE MergeLeftover(_, _, _, _, _)
MergeLeftover(F, fs, numLeftover, ctr, w) ==
    IF w.oob \/ ~(ctr < numLeftover) THEN w
    ELSE IF w.faceCtr >= Len(fs) THEN [ w EXCEPT !.oob = TRUE ]
    ELSE
      LET f == fs[w.faceCtr + 1]
      IN  IF ~IsDegenerateFace(F[f])
          THEN MergeLeftover(F, fs, numLeftover, ctr + 1,
                 [ w EXCEPT !.faceCtr = @ + 1, !.piece = Append(@, f) ])
          ELSE MergeLeftover(F, fs, numLeftover, ctr,
                 [ w EXCEPT !.faceCtr = @ + 1, !.piece = Append(@, f),
                            !.degenerateCount = @ + 1 ])

\* the piece of the numLeftover faces left over; w.faceCtr is leftOff
RECURSIVE TailPiece(_, _, _, _, _)
\* a tail piece that keeps a degenerate it starts with
TailPiece_KeepsFirst(F, fs, numLeftover, ctr, w) ==
    IF w.oob \/ ~(ctr < numLeftover) THEN w
    ELSE IF w.faceCtr >= Len(fs) THEN [ w EXCEPT !.oob = TRUE ]
    ELSE TailPiece(F, fs, numLeftover,
           IF IsDegenerateFace(F[fs[w.faceCtr + 1]]) THEN ctr ELSE ctr + 1,
           [ w EXCEPT !.faceCtr = @ + 1,
                      !.piece = Append(@, fs[w.faceCtr + 1]),
                      !.bFirstTime = FALSE ])

TailPiece(F, fs, numLeftover, ctr, w) ==
    IF w.oob \/ ~(ctr < numLeftover) THEN w
    ELSE IF w.faceCtr >= Len(fs) THEN [ w EXCEPT !.oob = TRUE ]
    ELSE
      LET f == fs[w.faceCtr + 1]
      IN  IF ~IsDegenerateFace(F[f])
          THEN TailPiece(F, fs, numLeftover, ctr + 1,
                 [ w EXCEPT !.faceCtr = @ + 1, !.piece = Append(@, f),
                            !.bFirstTime = FALSE ])
          ELSE IF ~w.bFirstTime
          THEN TailPiece(F, fs, numLeftover, ctr,
                 [ w EXCEPT !.faceCtr = @ + 1, !.piece = Append(@, f) ])
          ELSE TailPiece(F, fs, numLeftover, ctr,
                 [ w EXCEPT !.faceCtr = @ + 1, !.deleted = Append(@, f) ])

\* the for loop over j.  a is the record [pieces, degenerateCount, deleted,
\* oob, numLeftover]
RECURSIVE SplitTimes(_, _, _, _, _, _)
SplitTimes(F, fs, threshold, numTimes, j, a) ==
    IF j >= numTimes \/ a.oob THEN a
    ELSE
      LET w0 == [ faceCtr |-> j * threshold + a.degenerateCount,
                  degenerateCount |-> a.degenerateCount,
                  bFirstTime |-> TRUE, piece |-> << >>,
                  deleted |-> a.deleted, oob |-> FALSE ]
          merge == j = numTimes - 1 /\ a.numLeftover < 4 /\ a.numLeftover > 0
          Piece(w2) ==
              [ pieces |-> Append(a.pieces, w2.piece),
                degenerateCount |-> w2.degenerateCount,
                deleted |-> w2.deleted, oob |-> w2.oob,
                numLeftover |-> IF merge THEN 0 ELSE a.numLeftover ]
          Merge(w1) ==
              Piece(IF merge THEN MergeLeftover(F, fs, a.numLeftover, 0, w1)
                    ELSE w1)
      IN  SplitTimes(F, fs, threshold, numTimes, j + 1,
            Merge(SplitWindow(F, fs, threshold, j, numTimes, a.numLeftover, w0)))

\* the pieces of one strip: [pieces, deleted, oob]
SplitStrip(F, fs, threshold) ==
    LET Tail1(a, t) ==
            [ pieces |-> Append(a.pieces, t.piece),
              deleted |-> t.deleted, oob |-> t.oob ]
        Leftover(numTimes, a) ==
            IF a.numLeftover # 0
            THEN Tail1(a, TailPiece(F, fs, a.numLeftover, 0,
                   [ faceCtr |-> numTimes * threshold + a.degenerateCount,
                     degenerateCount |-> a.degenerateCount,
                     bFirstTime |-> TRUE, piece |-> << >>,
                     deleted |-> a.deleted, oob |-> a.oob ]))
            ELSE [ pieces |-> a.pieces, deleted |-> a.deleted,
                   oob |-> a.oob ]
        Split(actualStripSize, numTimes) ==
            Leftover(numTimes,
              SplitTimes(F, fs, threshold, numTimes, 0,
                [ pieces |-> << >>, degenerateCount |-> 0,
                  deleted |-> << >>, oob |-> FALSE,
                  numLeftover |-> actualStripSize % threshold ]))
        Sized(actualStripSize) ==
            IF actualStripSize > threshold
            THEN Split(actualStripSize, actualStripSize \div threshold)
            ELSE [ pieces |-> << fs >>, deleted |-> << >>, oob |-> FALSE ]
    IN  Sized(NumReal(F, fs))

(***************************************************************************)
(* RemoveSmallStrips.  Pieces are face lists.                              *)
(***************************************************************************)
RECURSIVE SmallFaces(_, _)
SmallFaces(pieces, minStripLength) ==
    IF pieces = << >> THEN << >>
    ELSE (IF Len(Head(pieces)) < minStripLength THEN Head(pieces) ELSE << >>)
         \o SmallFaces(Tail(pieces), minStripLength)

RECURSIVE BigStrips(_, _)
BigStrips(pieces, minStripLength) ==
    IF pieces = << >> THEN << >>
    ELSE (IF Len(Head(pieces)) < minStripLength THEN << >> ELSE << Head(pieces) >>)
         \o BigStrips(Tail(pieces), minStripLength)

\* the face with the most cache hits among those not visited, the first of
\* them on a tie: << bestIndex, bestNumHits >>
RECURSIVE BestFace(_, _, _, _, _, _, _)
BestFace(vcache, F, tempFaceList, bVisitedList, i, bestIndex, bestNumHits) ==
    IF i >= Len(tempFaceList) THEN << bestIndex, bestNumHits >>
    ELSE IF i \in bVisitedList
    THEN BestFace(vcache, F, tempFaceList, bVisitedList, i + 1, bestIndex, bestNumHits)
    ELSE LET Compare(numHits) ==
                 IF numHits > bestNumHits
                 THEN BestFace(vcache, F, tempFaceList, bVisitedList, i + 1, i,
                               numHits)
                 ELSE BestFace(vcache, F, tempFaceList, bVisitedList, i + 1,
                               bestIndex, bestNumHits)
         IN  Compare(CalcNumHitsFace(vcache, F[tempFaceList[i + 1]]))

RECURSIVE OrderFaceList(_, _, _, _, _, _)
OrderFaceList(vcache, F, tempFaceList, bVisitedList, bestIndex, faceList) ==
    LET Take(b) ==
            IF b[2] = -1 THEN faceList
            ELSE OrderFaceList(UpdateCacheFace(vcache, F[tempFaceList[b[1] + 1]]),
                               F, tempFaceList, bVisitedList \cup { b[1] }, b[1],
                               Append(faceList, tempFaceList[b[1] + 1]))
    IN  Take(BestFace(vcache, F, tempFaceList, bVisitedList, 0, bestIndex, -1))

\* [allBigStrips, faceList]
RemoveSmallStrips(F, pieces, minStripLength, size) ==
    LET Ordered(tempFaceList) ==
            [ allBigStrips |-> BigStrips(pieces, minStripLength),
              faceList |-> IF tempFaceList = << >> THEN << >>
                           ELSE OrderFaceList(VertexCache(size), F, tempFaceList,
                                              {}, 0, << >>) ]
    IN  Ordered(SmallFaces(pieces, minStripLength))

(***************************************************************************)
(* Winding.                                                                *)
(***************************************************************************)
\* a NextIsCW that takes the odd positions for the clockwise ones
NextIsCW_OddPositions(numIndices) == numIndices % 2 = 1

NextIsCW(numIndices) == numIndices % 2 = 0

IsCW(faceInfo, v0, v1) ==
    IF faceInfo.m_v0 = v0 THEN faceInfo.m_v1 = v1
    ELSE IF faceInfo.m_v1 = v0 THEN faceInfo.m_v2 = v1
    ELSE faceInfo.m_v0 = v1

Swap01(t) == [ t EXCEPT !.m_v0 = t.m_v1, !.m_v1 = t.m_v0 ]
Swap02(t) == [ t EXCEPT !.m_v0 = t.m_v2, !.m_v2 = t.m_v0 ]
Swap12(t) == [ t EXCEPT !.m_v1 = t.m_v2, !.m_v2 = t.m_v1 ]

\* the unique vertex of the first face first
UniqueFirst(F, fs) ==
    LET t == NvFaceInfo(F[fs[1]].m_v0, F[fs[1]].m_v1, F[fs[1]].m_v2)
        First(nUnique) ==
            IF nUnique = t.m_v1 THEN Swap01(t)
            ELSE IF nUnique = t.m_v2 THEN Swap02(t)
            ELSE t
    IN  First(GetUniqueVertexInB(F[fs[2]], t))

\* the shared vertex last
SharedLast(F, fs, t) ==
    LET Last(sh) == IF sh[1] = t.m_v1 /\ sh[2] = -1 THEN Swap12(t) ELSE t
    IN  Last(GetSharedVertices(F[fs[3]], t))

\* tFirstFace as CreateStrips orders it
CreateFirstFace(F, fs) ==
    IF Len(fs) > 1
    THEN LET Second(t) ==
                 IF Len(fs) > 2
                 THEN IF IsDegenerateFace(F[fs[2]])
                      THEN IF t.m_v1 = F[fs[2]].m_v1 THEN Swap12(t) ELSE t
                      ELSE SharedLast(F, fs, t)
                 ELSE t
         IN  Second(UniqueFirst(F, fs))
    ELSE NvFaceInfo(F[fs[1]].m_v0, F[fs[1]].m_v1, F[fs[1]].m_v2)

\* tFirstFace as the reorder pass of SplitUpStripsAndOptimize orders it
OptimizeFirstFace(F, fs) ==
    IF Len(fs) > 1
    THEN LET Second(t) == IF Len(fs) > 2 THEN SharedLast(F, fs, t) ELSE t
         IN  Second(UniqueFirst(F, fs))
    ELSE NvFaceInfo(F[fs[1]].m_v0, F[fs[1]].m_v1, F[fs[1]].m_v2)

(***************************************************************************)
(* SplitUpStripsAndOptimize, the reorder pass.  Quotients of whole numbers *)
(* are pairs << numerator, denominator >>.                                 *)
(***************************************************************************)
QLess(a, b) == a[1] * b[2] < b[1] * a[2]

\* the first piece with "currCost <= minCost": the last on a tie
RECURSIVE FirstPiece_LastOnTie(_, _, _, _, _, _, _)
FirstPiece_LastOnTie(E, EI, F, pieces, j, firstIndex, minCost) ==
    IF j >= Len(pieces) THEN firstIndex
    ELSE LET Compare(currCost) ==
                 IF currCost[2] # 0 /\ ~QLess(minCost, currCost)
                 THEN FirstPiece_LastOnTie(E, EI, F, pieces, j + 1, j, currCost)
                 ELSE FirstPiece_LastOnTie(E, EI, F, pieces, j + 1, firstIndex,
                                           minCost)
         IN  Compare(<< SumNeighbors(E, EI, F, pieces[j + 1]),
                        Len(pieces[j + 1]) >>)

\* the piece with the least number of neighbors per face, the first on a tie
RECURSIVE FirstPiece(_, _, _, _, _, _, _)
FirstPiece(E, EI, F, pieces, j, firstIndex, minCost) ==
    IF j >= Len(pieces) THEN firstIndex
    ELSE LET Compare(currCost) ==
                 IF currCost[2] # 0 /\ QLess(currCost, minCost)
                 THEN FirstPiece(E, EI, F, pieces, j + 1, j, currCost)
                 ELSE FirstPiece(E, EI, F, pieces, j + 1, firstIndex, minCost)
         IN  Compare(<< SumNeighbors(E, EI, F, pieces[j + 1]),
                        Len(pieces[j + 1]) >>)

\* the for loop that picks the next piece: << bestIndex, bestNumHits >>,
\* bestNumHits << -1, 1 >> when every piece is visited
RECURSIVE NextPiece(_, _, _, _, _, _, _, _)
NextPiece(vcache, F, pieces, visited, bWantsCW, i, bestIndex, bestNumHits) ==
    IF i >= Len(pieces) THEN << bestIndex, bestNumHits >>
    ELSE IF i \in visited
    THEN NextPiece(vcache, F, pieces, visited, bWantsCW, i + 1, bestIndex, bestNumHits)
    ELSE
      LET Compare(numHits, t) ==
              IF QLess(bestNumHits, numHits)
              THEN NextPiece(vcache, F, pieces, visited, bWantsCW, i + 1, i,
                             numHits)
              ELSE IF ~QLess(numHits, bestNumHits)
                      /\ bWantsCW = IsCW(F[pieces[i + 1][1]], t.m_v0, t.m_v1)
              THEN NextPiece(vcache, F, pieces, visited, bWantsCW, i + 1, i,
                             bestNumHits)
              ELSE NextPiece(vcache, F, pieces, visited, bWantsCW, i + 1,
                             bestIndex, bestNumHits)
      IN  Compare(CalcNumHitsStrip(vcache, F, pieces[i + 1]),
                  OptimizeFirstFace(F, pieces[i + 1]))

\* the while(1) loop.  o is the record [vcache, visited, bWantsCW, bestIndex,
\* outStrips]
RECURSIVE ReorderLoop(_, _, _)
ReorderLoop(F, pieces, o) ==
    LET Take(b) ==
            LET best == pieces[b[1] + 1]
            IN  IF b[2] = << -1, 1 >> THEN o.outStrips
                ELSE ReorderLoop(F, pieces,
                       [ vcache |-> UpdateCacheStrip(o.vcache, F, best),
                         visited |-> o.visited \cup { b[1] },
                         bWantsCW |-> IF Len(best) % 2 = 0 THEN o.bWantsCW
                                      ELSE ~o.bWantsCW,
                         bestIndex |-> b[1],
                         outStrips |-> Append(o.outStrips, best) ])
    IN  Take(NextPiece(o.vcache, F, pieces, o.visited, o.bWantsCW, 0,
                       o.bestIndex, << -1, 1 >>))

\* outStrips
Optimize(E, EI, F, pieces, size) ==
    IF pieces = << >> THEN << >>
    ELSE LET Start(firstIndex) ==
                 LET first == pieces[firstIndex + 1]
                 IN  [ vcache |-> UpdateCacheStrip(VertexCache(size), F, first),
                       visited |-> { firstIndex },
                       bWantsCW |-> Len(first) % 2 = 0,
                       bestIndex |-> 0,
                       outStrips |-> << first >> ]
         IN  ReorderLoop(F, pieces,
               Start(FirstPiece(E, EI, F, pieces, 0, 0, << 10000, 1 >>)))

(***************************************************************************)
(* CreateStrips.  k is the record [stripIndices, tLastFace,                *)
(* accountForNegatives, numSeparateStrips].                                *)
(***************************************************************************)
\* the faces of a strip after the first
RECURSIVE EmitFaces(_, _, _, _)
EmitFaces(F, fs, j, k) ==
    IF j >= Len(fs) THEN k
    ELSE LET face == F[fs[j + 1]]
             Emit(nUnique) ==
                 IF nUnique # -1
                 THEN [ k EXCEPT !.stripIndices = Append(@, nUnique),
                                 !.tLastFace = NvFaceInfo(k.tLastFace.m_v1,
                                                  k.tLastFace.m_v2, nUnique) ]
                 ELSE [ k EXCEPT !.stripIndices = Append(@, face.m_v2),
                                 !.tLastFace = NvFaceInfo(face.m_v0, face.m_v1,
                                                  face.m_v2) ]
         IN  EmitFaces(F, fs, j + 1,
                       Emit(GetUniqueVertexInB(k.tLastFace, face)))

\* the start of strip i without the extra tap that sets the winding
EmitFirstFace_NoWindingTap(F, fs, i, stitch, k) ==
    LET First(t) ==
            LET taps == IF i = 0 \/ ~stitch THEN << >> ELSE << t.m_v0 >>
            IN  [ k EXCEPT !.stripIndices =
                               @ \o taps \o << t.m_v0, t.m_v1, t.m_v2 >>,
                           !.tLastFace = t ]
    IN  First(CreateFirstFace(F, fs))

\* the start of strip i: the taps before the first face, then the first face
EmitFirstFace(F, fs, i, stitch, k) ==
    LET First(t) ==
            LET cw == IsCW(F[fs[1]], t.m_v0, t.m_v1)
                taps == IF i = 0 \/ ~stitch
                        THEN IF ~cw THEN << t.m_v0 >> ELSE << >>
                        ELSE IF NextIsCW(Len(k.stripIndices) + 1
                                         - k.accountForNegatives) # cw
                             THEN << t.m_v0, t.m_v0 >>
                             ELSE << t.m_v0 >>
            IN  [ k EXCEPT !.stripIndices =
                               @ \o taps \o << t.m_v0, t.m_v1, t.m_v2 >>,
                           !.tLastFace = t ]
    IN  First(CreateFirstFace(F, fs))

\* CreateStrips with the -1 between two strips only
RECURSIVE EmitStrips_SentinelBetween(_, _, _, _, _)
EmitStrips_SentinelBetween(F, strips, i, stitch, k) ==
    IF i >= Len(strips) THEN k
    ELSE LET fs == strips[i + 1]
             End(k1) ==
                 IF stitch
                 THEN IF i # Len(strips) - 1
                      THEN [ k1 EXCEPT !.stripIndices =
                                          Append(@, k1.tLastFace.m_v2) ]
                      ELSE k1
                 ELSE [ k1 EXCEPT !.stripIndices =
                                     IF i # Len(strips) - 1
                                     THEN Append(@, -1) ELSE @,
                                  !.accountForNegatives = @ + 1,
                                  !.numSeparateStrips = @ + 1 ]
         IN  EmitStrips_SentinelBetween(F, strips, i + 1, stitch,
               End(EmitFaces(F, fs, 1, EmitFirstFace(F, fs, i, stitch, k))))

RECURSIVE EmitStrips(_, _, _, _, _)
EmitStrips(F, strips, i, stitch, k) ==
    IF i >= Len(strips) THEN k
    ELSE LET fs == strips[i + 1]
             End(k1) ==
                 IF stitch
                 THEN IF i # Len(strips) - 1
                      THEN [ k1 EXCEPT !.stripIndices =
                                          Append(@, k1.tLastFace.m_v2) ]
                      ELSE k1
                 ELSE [ k1 EXCEPT !.stripIndices = Append(@, -1),
                                  !.accountForNegatives = @ + 1,
                                  !.numSeparateStrips = @ + 1 ]
         IN  EmitStrips(F, strips, i + 1, stitch,
               End(EmitFaces(F, fs, 1, EmitFirstFace(F, fs, i, stitch, k))))

\* CreateStrips without "if(bStitchStrips) numSeparateStrips = 1"
CreateStrips_CountsSentinels(F, strips, stitch) ==
    LET Result(k) == [ stripIndices |-> k.stripIndices,
                       numSeparateStrips |-> k.numSeparateStrips ]
    IN  Result(EmitStrips(F, strips, 0, stitch,
                 [ stripIndices |-> << >>, tLastFace |-> NvFaceInfo(0, 0, 0),
                   accountForNegatives |-> 0, numSeparateStrips |-> 0 ]))

\* [stripIndices, numSeparateStrips]; every strip has a face
CreateStrips(F, strips, stitch) ==
    LET Result(k) ==
            [ stripIndices |-> k.stripIndices,
              numSeparateStrips |-> IF stitch THEN 1 ELSE k.numSeparateStrips ]
    IN  Result(EmitStrips(F, strips, 0, stitch,
                 [ stripIndices |-> << >>, tLastFace |-> NvFaceInfo(0, 0, 0),
                   accountForNegatives |-> 0, numSeparateStrips |-> 0 ]))

(***************************************************************************)
(* GenerateStrips: the groups.  A group is the record [type, numIndices,   *)
(* indices]; indices holds the slots written, in order.                    *)
(***************************************************************************)
RECURSIVE FaceIndices(_, _)
FaceIndices(F, fs) ==
    IF fs = << >> THEN << >>
    ELSE << F[Head(fs)].m_v0, F[Head(fs)].m_v1, F[Head(fs)].m_v2 >>
         \o FaceIndices(F, Tail(fs))

\* the faces the "do strips" loop writes
RECURSIVE RealFaces(_, _)
RealFaces(F, fs) ==
    IF fs = << >> THEN << >>
    ELSE (IF ~IsDegenerateFace(F[Head(fs)]) THEN << Head(fs) >> ELSE << >>)
         \o RealFaces(F, Tail(fs))

RECURSIVE NumFaces(_)
NumFaces(strips) ==
    IF strips = << >> THEN 0 ELSE Len(Head(strips)) + NumFaces(Tail(strips))

\* the bListsOnly branch without "first.numIndices -= 3"
ListsOnlyGroups_CountsDegenerates(F, strips, tempFaces) ==
    LET all == Flatten(strips)
    IN  << [ type |-> "LIST",
             numIndices |-> NumFaces(strips) * 3 + Len(tempFaces) * 3,
             indices |-> FaceIndices(F, RealFaces(F, all))
                         \o FaceIndices(F, tempFaces) ] >>

\* the bListsOnly branch
ListsOnlyGroups(F, strips, tempFaces) ==
    LET all == Flatten(strips)
        numIndices == NumFaces(strips) * 3 + Len(tempFaces) * 3
    IN  << [ type |-> "LIST",
             numIndices |-> numIndices - 3 * (Len(all) - Len(RealFaces(F, all))),
             indices |-> FaceIndices(F, RealFaces(F, all))
                         \o FaceIndices(F, tempFaces) ] >>

\* the slot of the next -1 at or after i, the size of the stream if none
RECURSIVE ScanSentinel(_, _)
ScanSentinel(stream, i) ==
    IF i >= Len(stream) THEN i
    ELSE IF stream[i + 1] = -1 THEN i
    ELSE ScanSentinel(stream, i + 1)

\* the strips with "startingLoc += stripLength", the -1 not stepped over
RECURSIVE StripGroups_SentinelKept(_, _, _, _, _, _)
StripGroups_SentinelKept(stream, numStrips, stitch, stripCtr, startingLoc, groups) ==
    IF stripCtr >= numStrips THEN groups
    ELSE LET stripLength == IF ~stitch
                            THEN ScanSentinel(stream, startingLoc) - startingLoc
                            ELSE Len(stream)
         IN  StripGroups_SentinelKept(stream, numStrips, stitch, stripCtr + 1,
                startingLoc + stripLength,
                Append(groups,
                  [ type |-> "STRIP", numIndices |-> stripLength,
                    indices |-> SubSeq(stream, startingLoc + 1,
                                       startingLoc + stripLength) ]))

\* "first, the strips"
RECURSIVE StripGroups(_, _, _, _, _, _)
StripGroups(stream, numStrips, stitch, stripCtr, startingLoc, groups) ==
    IF stripCtr >= numStrips THEN groups
    ELSE LET stripLength == IF ~stitch
                            THEN ScanSentinel(stream, startingLoc) - startingLoc
                            ELSE Len(stream)
         IN  StripGroups(stream, numStrips, stitch, stripCtr + 1,
                startingLoc + stripLength + 1,
                Append(groups,
                  [ type |-> "STRIP", numIndices |-> stripLength,
                    indices |-> SubSeq(stream, startingLoc + 1,
                                       startingLoc + stripLength) ]))

\* "next, the list"
ListGroup(F, tempFaces) ==
    IF Len(tempFaces) # 0
    THEN << [ type |-> "LIST", numIndices |-> Len(tempFaces) * 3,
              indices |-> FaceIndices(F, tempFaces) ] >>
    ELSE << >>

(***************************************************************************)
(* The state machine: one call of GenerateStrips.                          *)
(***************************************************************************)
Inputs ==
    { Flatten(ts) : ts \in SeqsUpTo(TriPool, MaxTris) } \cup { DisjointPair, VertexFan, TurningBand }

maxIndex == MaxOfSeq(in_indices)

\* the locals of GenerateStrips and the members of the stripifier at the
\* start of a call
Constructed ==
    /\ pc = IF in_indices = << >> THEN "FindAllStrips" ELSE "BuildStripifyInfo"
    /\ index = 0
    /\ faces = << >>
    /\ edges = << >>
    /\ faceInfos = << >>
    /\ edgeInfos = [ v \in 0..maxIndex |-> 0 ]
    /\ meshJump = 0
    /\ bFirstTimeResetPoint = TRUE
    /\ experimentId = 0
    /\ stripId = 0
    /\ allStrips = << >>
    /\ splitCtr = 0
    /\ tempStrips = << >>
    /\ tempStrips2 = << >>
    /\ outFaceList = << >>
    /\ outStrips = << >>
    /\ stripIndices = << >>
    /\ numSeparateStrips = 0
    /\ primGroups = << >>
    /\ asserts = {}
    /\ deletedFaces = << >>
    /\ deletedEdges = << >>
    /\ freedReads = {}
    /\ firstGroups = << >>
    /\ remappedGroups = << >>

Init ==
    /\ in_indices \in Inputs
    /\ cacheSize \in CacheSizes
    /\ bStitchStrips \in BOOLEAN
    /\ minStripSize \in MinStripSizes
    /\ bListsOnly \in BOOLEAN
    /\ bListsOnly => bStitchStrips     \* bStitchStrips is not read then
    /\ Constructed

\* the cache size of the stripifier, clamped to one
StripifierCacheSize == Max(1, cacheSize - CACHE_INEFFICIENCY)

\* BuildStripifyInfo: one turn of the loop over the triangles
BuildStripifyInfo ==
    /\ pc = "BuildStripifyInfo"
    /\ index + 3 <= Len(in_indices)
    /\ \E r \in { AddTriangle(faces, edges, edgeInfos, faceInfos,
                    in_indices[index + 1], in_indices[index + 2],
                    in_indices[index + 3]) } :
           /\ faces' = r.F
           /\ edges' = r.E
           /\ edgeInfos' = r.EI
           /\ faceInfos' = r.FI
           /\ deletedFaces' = deletedFaces \o r.deleted
    /\ index' = index + 3
    /\ pc' = IF index' + 3 <= Len(in_indices) THEN pc ELSE "FindAllStrips"
    /\ UNCHANGED << in_indices, cacheSize, bStitchStrips, minStripSize,
                    bListsOnly, meshJump, bFirstTimeResetPoint, experimentId,
                    stripId, allStrips, splitCtr, tempStrips, tempStrips2,
                    outFaceList, outStrips, stripIndices, numSeparateStrips,
                    primGroups, asserts, deletedEdges, freedReads,
                    firstGroups, remappedGroups >>

\* where Stripify goes after FindAllStrips
AfterFindAllStrips(strips) ==
    IF strips = << >> THEN "RemoveSmallStrips" ELSE "SplitUpStrips"

\* FindAllStrips: one round of experiments and its commit
FindAllStrips ==
    /\ pc = "FindAllStrips"
    /\ faceInfos # << >>
    /\ \E r \in { FindAllStripsRound(edges, edgeInfos, faces, faceInfos,
                    allStrips, stripId, experimentId, meshJump,
                    bFirstTimeResetPoint) } :
           /\ faces' = r.F
           /\ allStrips' = r.allStrips
           /\ stripId' = r.stripId
           /\ experimentId' = r.experimentId
           /\ meshJump' = r.meshJump
           /\ bFirstTimeResetPoint' = r.bFirst
           /\ deletedFaces' = deletedFaces \o r.deleted
           /\ pc' = IF r.done THEN AfterFindAllStrips(r.allStrips) ELSE pc
    /\ UNCHANGED << in_indices, cacheSize, bStitchStrips, minStripSize,
                    bListsOnly, index, edges, faceInfos, edgeInfos, splitCtr,
                    tempStrips, tempStrips2, outFaceList, outStrips,
                    stripIndices, numSeparateStrips, primGroups, asserts,
                    deletedEdges, freedReads, firstGroups, remappedGroups >>

\* FindAllStrips on an empty face table: FindGoodResetPoint reads
\* faceInfos[0] of an empty vector.  The read either faults or yields a face
\* that counts as visited, and then the walk ends with no reset point.
FindAllStripsEmpty ==
    /\ pc = "FindAllStrips"
    /\ faceInfos = << >>
    /\ \/ /\ pc' = "crashed"
          /\ UNCHANGED meshJump
       \/ /\ pc' = "RemoveSmallStrips"
          /\ meshJump' = NextMeshJump(meshJump)
    /\ bFirstTimeResetPoint' = FALSE
    /\ UNCHANGED << in_indices, cacheSize, bStitchStrips, minStripSize,
                    bListsOnly, index, faces, edges, faceInfos, edgeInfos,
                    experimentId, stripId, allStrips, splitCtr, tempStrips,
                    tempStrips2, outFaceList, outStrips, stripIndices,
                    numSeparateStrips, primGroups, asserts, deletedFaces,
                    deletedEdges, freedReads, firstGroups, remappedGroups >>

\* SplitUpStripsAndOptimize: the split of one committed strip
SplitUpStrips ==
    /\ pc = "SplitUpStrips"
    /\ splitCtr < Len(allStrips)
    /\ \E r \in { SplitStrip(faces, allStrips[splitCtr + 1].m_faces,
                              StripifierCacheSize) } :
           /\ tempStrips' = tempStrips \o r.pieces
           /\ deletedFaces' = deletedFaces \o r.deleted
           /\ pc' = IF r.oob THEN "crashed"
                    ELSE IF splitCtr + 1 < Len(allStrips) THEN pc
                    ELSE "RemoveSmallStrips"
    /\ splitCtr' = splitCtr + 1
    /\ UNCHANGED << in_indices, cacheSize, bStitchStrips, minStripSize,
                    bListsOnly, index, faces, edges, faceInfos, edgeInfos,
                    meshJump, bFirstTimeResetPoint, experimentId, stripId,
                    allStrips, tempStrips2, outFaceList, outStrips,
                    stripIndices, numSeparateStrips, primGroups, asserts,
                    deletedEdges, freedReads, firstGroups, remappedGroups >>

\* SplitUpStripsAndOptimize: the call of RemoveSmallStrips
RemoveSmallStripsStep ==
    /\ pc = "RemoveSmallStrips"
    /\ \E r \in { RemoveSmallStrips(faces, tempStrips, minStripSize,
                                     StripifierCacheSize) } :
           /\ tempStrips2' = r.allBigStrips
           /\ outFaceList' = r.faceList
    /\ pc' = "Optimize"
    /\ UNCHANGED << in_indices, cacheSize, bStitchStrips, minStripSize,
                    bListsOnly, index, faces, edges, faceInfos, edgeInfos,
                    meshJump, bFirstTimeResetPoint, experimentId, stripId,
                    allStrips, splitCtr, tempStrips, outStrips, stripIndices,
                    numSeparateStrips, primGroups, asserts, deletedFaces,
                    deletedEdges, freedReads, firstGroups, remappedGroups >>

\* NvEdgeInfo::Unref along the chain of vertex i, from info on.  u is the
\* record [E, deleted, freedReads].  An edge whose count reached zero is
\* deleted; meeting it again is a read of freed memory, recorded in
\* freedReads, and the walk of that chain ends there.
RECURSIVE UnrefChain(_, _, _)
UnrefChain(u, i, info) ==
    IF info = 0 THEN u
    ELSE IF u.E[info].m_refCount = 0
    THEN [ u EXCEPT !.freedReads = @ \cup { info } ]
    ELSE UnrefChain(
           [ u EXCEPT !.E[info].m_refCount = @ - 1,
                      !.deleted = IF u.E[info].m_refCount = 1
                                  THEN Append(@, info) ELSE @ ],
           i,
           IF u.E[info].m_v0 = i THEN u.E[info].m_nextV0
           ELSE u.E[info].m_nextV1)

\* the clean up of Stripify: the chains of the vertices i, i + 1, ...
RECURSIVE UnrefEdges(_, _, _)
UnrefEdges(u, EI, i) ==
    IF i \notin DOMAIN EI THEN u
    ELSE UnrefEdges(UnrefChain(u, i, EI[i]), EI, i + 1)

\* where GenerateStrips goes after Stripify
AfterStripify == IF bListsOnly THEN "Output" ELSE "CreateStrips"

\* SplitUpStripsAndOptimize: the reorder pass; then the clean up of Stripify,
\* and Stripify returns
OptimizeStep ==
    /\ pc = "Optimize"
    /\ outStrips' = Optimize(edges, edgeInfos, faces, tempStrips2,
                             StripifierCacheSize)
    /\ \E u \in { UnrefEdges([ E |-> edges, deleted |-> deletedEdges,
                                freedReads |-> freedReads ],
                              edgeInfos, 0) } :
           /\ edges' = u.E
           /\ deletedEdges' = u.deleted
           /\ freedReads' = u.freedReads
           /\ pc' \in IF u.freedReads = {} THEN { AfterStripify }
                      ELSE { AfterStripify, "crashed" }
    /\ UNCHANGED << in_indices, cacheSize, bStitchStrips, minStripSize,
                    bListsOnly, index, faces, faceInfos, edgeInfos,
                    meshJump, bFirstTimeResetPoint, experimentId, stripId,
                    allStrips, splitCtr, tempStrips, tempStrips2, outFaceList,
                    stripIndices, numSeparateStrips, primGroups, asserts,
                    deletedFaces, firstGroups, remappedGroups >>

\* CreateStrips.  assert(nStripCount > 0) aborts a build with assertions and
\* is compiled out of a build without them.
CreateStripsStep ==
    /\ pc = "CreateStrips"
    /\ \E r \in { CreateStrips(faces, outStrips, bStitchStrips) } :
           \/ /\ Len(outStrips) > 0
              /\ stripIndices' = r.stripIndices
              /\ numSeparateStrips' = r.numSeparateStrips
              /\ pc' = "Output"
              /\ UNCHANGED asserts
           \/ /\ Len(outStrips) = 0
              /\ asserts' = asserts \cup { "nStripCount > 0" }
              /\ \/ /\ pc' = "aborted"
                    /\ UNCHANGED << stripIndices, numSeparateStrips >>
                 \/ /\ pc' = "Output"
                    /\ stripIndices' = r.stripIndices
                    /\ numSeparateStrips' = r.numSeparateStrips
    /\ UNCHANGED << in_indices, cacheSize, bStitchStrips, minStripSize,
                    bListsOnly, index, faces, edges, faceInfos, edgeInfos,
                    meshJump, bFirstTimeResetPoint, experimentId, stripId,
                    allStrips, splitCtr, tempStrips, tempStrips2, outFaceList,
                    outStrips, primGroups, deletedFaces, deletedEdges,
                    freedReads, firstGroups, remappedGroups >>

\* the assertion of GenerateStrips after CreateStrips
StitchAssert == (bStitchStrips /\ numSeparateStrips = 1) \/ ~bStitchStrips

\* GenerateStrips: the groups are written, the strips' faces and the
\* leftover faces are deleted
Output ==
    /\ pc = "Output"
    /\ primGroups' =
         IF bListsOnly
         THEN ListsOnlyGroups(faces, outStrips, outFaceList)
         ELSE StripGroups(stripIndices, numSeparateStrips, bStitchStrips,
                          0, 0, << >>)
              \o ListGroup(faces, outFaceList)
    /\ asserts' = IF ~bListsOnly /\ ~StitchAssert
                  THEN asserts \cup { "numSeparateStrips == 1" }
                  ELSE asserts
    /\ deletedFaces' = deletedFaces \o Flatten(outStrips) \o outFaceList
    /\ pc' = "done"
    /\ UNCHANGED << in_indices, cacheSize, bStitchStrips, minStripSize,
                    bListsOnly, index, faces, edges, faceInfos, edgeInfos,
                    meshJump, bFirstTimeResetPoint, experimentId, stripId,
                    allStrips, splitCtr, tempStrips, tempStrips2, outFaceList,
                    outStrips, stripIndices, numSeparateStrips, deletedEdges,
                    freedReads, firstGroups, remappedGroups >>

\* a RemapGroup that hands out a new index and does not add it to the cache
RECURSIVE RemapGroup_NotCached(_, _, _, _)
RemapGroup_NotCached(r, indices, numIndices, j) ==
    IF j >= numIndices THEN r
    ELSE RemapGroup_NotCached(
           [ r EXCEPT !.indexCtr = @ + 1,
                      !.indices = Append(@, r.indexCtr) ],
           indices, numIndices, j + 1)

\* RemapIndices: the loop over the indices j + 1, j + 2, ... of one group.
\* r is the record [indexCache, indexCtr, indices]
RECURSIVE RemapGroup(_, _, _, _)
RemapGroup(r, indices, numIndices, j) ==
    IF j >= numIndices THEN r
    ELSE LET Cached(cachedIndex) ==
                 IF cachedIndex = NotCached
                 THEN [ indexCache |->
                          [ r.indexCache EXCEPT ![indices[j + 1]] = r.indexCtr ],
                        indexCtr |-> r.indexCtr + 1,
                        indices |-> Append(r.indices, r.indexCtr) ]
                 ELSE [ r EXCEPT !.indices = Append(@, cachedIndex) ]
         IN  RemapGroup(Cached(r.indexCache[indices[j + 1]]),
                        indices, numIndices, j + 1)

\* RemapIndices: the loop over the groups i + 1, i + 2, ...  m is the record
\* [indexCache, indexCtr, remappedGroups]
RECURSIVE RemapLoop(_, _, _)
RemapLoop(m, in_primGroups, i) ==
    IF i >= Len(in_primGroups) THEN m
    ELSE LET Group(r) ==
                 [ indexCache |-> r.indexCache, indexCtr |-> r.indexCtr,
                   remappedGroups |->
                     Append(m.remappedGroups,
                            [ type |-> in_primGroups[i + 1].type,
                              numIndices |-> in_primGroups[i + 1].numIndices,
                              indices |-> r.indices ]) ]
         IN  RemapLoop(
               Group(RemapGroup([ indexCache |-> m.indexCache,
                                  indexCtr |-> m.indexCtr,
                                  indices |-> << >> ],
                                in_primGroups[i + 1].indices,
                                in_primGroups[i + 1].numIndices, 0)),
               in_primGroups, i + 1)

\* RemapIndices
RemapIndices(in_primGroups, numVerts) ==
    RemapLoop([ indexCache |-> [ v \in 0..(numVerts - 1) |-> NotCached ],
                indexCtr |-> 0, remappedGroups |-> << >> ],
              in_primGroups, 0).remappedGroups

\* the caller hands the groups it was given to RemapIndices, with a vertex
\* buffer of maxIndex + 1 vertices
RemapIndicesStep ==
    /\ pc = "done"
    /\ remappedGroups' = RemapIndices(primGroups, maxIndex + 1)
    /\ pc' = "remapped"
    /\ UNCHANGED << in_indices, cacheSize, bStitchStrips, minStripSize,
                    bListsOnly, index, faces, edges, faceInfos, edgeInfos,
                    meshJump, bFirstTimeResetPoint, experimentId, stripId,
                    allStrips, splitCtr, tempStrips, tempStrips2, outFaceList,
                    outStrips, stripIndices, numSeparateStrips, primGroups,
                    asserts, deletedFaces, deletedEdges, freedReads,
                    firstGroups >>

\* the caller, after a first call in lists-only mode has returned, calls
\* GenerateStrips again with the indices of the group it was given and the
\* same settings
SecondCall ==
    /\ pc = "done"
    /\ bListsOnly
    /\ firstGroups = << >>
    /\ firstGroups' = primGroups
    /\ in_indices' = primGroups[1].indices
    /\ pc' = IF in_indices' = << >> THEN "FindAllStrips"
             ELSE "BuildStripifyInfo"
    /\ index' = 0
    /\ faces' = << >>
    /\ edges' = << >>
    /\ faceInfos' = << >>
    /\ edgeInfos' = [ v \in 0..MaxOfSeq(in_indices') |-> 0 ]
    /\ meshJump' = 0
    /\ bFirstTimeResetPoint' = TRUE
    /\ experimentId' = 0
    /\ stripId' = 0
    /\ allStrips' = << >>
    /\ splitCtr' = 0
    /\ tempStrips' = << >>
    /\ tempStrips2' = << >>
    /\ outFaceList' = << >>
    /\ outStrips' = << >>
    /\ stripIndices' = << >>
    /\ numSeparateStrips' = 0
    /\ primGroups' = << >>
    /\ deletedFaces' = << >>
    /\ deletedEdges' = << >>
    /\ UNCHANGED << cacheSize, bStitchStrips, minStripSize, bListsOnly,
                    asserts, freedReads, remappedGroups >>

Next ==
    \/ BuildStripifyInfo
    \/ FindAllStrips
    \/ FindAllStripsEmpty
    \/ SplitUpStrips
    \/ RemoveSmallStripsStep
    \/ OptimizeStep
    \/ CreateStripsStep
    \/ Output
    \/ SecondCall
    \/ RemapIndicesStep

Spec == Init /\ [][Next]_vars

\* Stripify up to the end of FindAllStrips, which reads none of the
\* settings: one call with the settings left at their defaults.  The while
\* loop of FindAllStrips runs its next round as long as it has one.
FairInit ==
    /\ Init
    /\ cacheSize = 16 /\ bStitchStrips /\ minStripSize = 0 /\ ~bListsOnly

FairNext ==
    \/ BuildStripifyInfo
    \/ FindAllStrips

\* FindAllStrips is enabled, and changes meshJump, exactly where the loop has
\* a round to run
RoundToRun == pc = "FindAllStrips" /\ faceInfos # << >>

\* weak fairness of the loop of FindAllStrips, written out: WF_vars(A) is
\* []<>~ENABLED <<A>>_vars \/ []<><<A>>_vars, and ENABLED <<FindAllStrips>>_vars
\* is RoundToRun
FairSpec ==
    /\ FairInit /\ [][FairNext]_vars
    /\ ([]<>~RoundToRun \/ []<><<FindAllStrips>>_vars)

(***************************************************************************)
(* Reading an index list as triangles.  A triangle is the tuple of its     *)
(* three indices.                                                          *)
(***************************************************************************)
\* a list by triples
RECURSIVE Triples(_)
Triples(s) ==
    IF Len(s) < 3 THEN << >>
    ELSE << << s[1], s[2], s[3] >> >> \o Triples(SubSeq(s, 4, Len(s)))

\* the strip rule: triangle k is slots k, k+1, k+2, flipped for odd k
RECURSIVE StripRule(_, _)
StripRule(s, k) ==
    IF k + 3 > Len(s) THEN << >>
    ELSE << IF k % 2 = 0 THEN << s[k + 1], s[k + 2], s[k + 3] >>
            ELSE << s[k + 2], s[k + 1], s[k + 3] >> >>
         \o StripRule(s, k + 1)

IsRealTriangle(t) == ~IsDegenerate(t[1], t[2], t[3])

NonDegenerate(ts) == SelectSeq(ts, IsRealTriangle)

\* the triangles of a group, degenerates skipped
GroupTriangles(g) ==
    NonDegenerate(IF g.type = "STRIP" THEN StripRule(g.indices, 0)
                  ELSE Triples(g.indices))

RECURSIVE GroupsTriangles(_)
GroupsTriangles(groups) ==
    IF groups = << >> THEN << >>
    ELSE GroupTriangles(Head(groups)) \o GroupsTriangles(Tail(groups))

OutputTriangles == GroupsTriangles(primGroups)

InputTriangles == NonDegenerate(Triples(in_indices))

\* the input triangles that do not repeat an earlier triple index for index
DistinctInputTriangles ==
    LET ts == NonDegenerate(Triples(in_indices))
        keep == { i \in 1..Len(ts) : \A j \in 1..(i - 1) : ts[j] # ts[i] }
        RECURSIVE Kept(_)
        Kept(i) == IF i > Len(ts) THEN << >>
                   ELSE (IF i \in keep THEN << ts[i] >> ELSE << >>) \o Kept(i + 1)
    IN  Kept(1)

\* a triangle without its orientation, and with its orientation only
VertexSet(t) == { t[1], t[2], t[3] }

Oriented(t) ==
    IF t[1] <= t[2] /\ t[1] <= t[3] THEN t
    ELSE IF t[2] <= t[1] /\ t[2] <= t[3] THEN << t[2], t[3], t[1] >>
    ELSE << t[3], t[1], t[2] >>

VertexSets(ts) == [ i \in 1..Len(ts) |-> VertexSet(ts[i]) ]

Orientations(ts) == [ i \in 1..Len(ts) |-> Oriented(ts[i]) ]

Count(ts, x) == Cardinality({ i \in 1..Len(ts) : ts[i] = x })

SameMultiset(a, b) ==
    /\ Len(a) = Len(b)
    /\ \A i \in 1..Len(a) : Count(a, a[i]) = Count(b, a[i])

SubMultiset(a, b) == \A i \in 1..Len(a) : Count(a, a[i]) <= Count(b, a[i])

StripGroupsOf(groups) == SelectSeq(groups, LAMBDA g : g.type = "STRIP")

(***************************************************************************)
(* C1.  Triangle coverage.                                                 *)
(***************************************************************************)
\* C1: when GenerateStrips returns, the non-degenerate triangles of the
\* groups it returns (STRIP groups by the strip rule, LIST groups by triples)
\* are, as a multiset of vertex sets, the non-degenerate triangles of the
\* input, also when the input lists a vertex set again in a rotated or a
\* reversed order.  Stated for the inputs in which no triangle repeats an
\* earlier one index for index: BuildStripifyInfo drops such a repeat.
C1_TriangleCoverage ==
    (pc = "done" /\ Len(DistinctInputTriangles) = Len(InputTriangles)) =>
        SameMultiset(VertexSets(OutputTriangles), VertexSets(InputTriangles))

(***************************************************************************)
(* C2.  Winding preservation.                                              *)
(***************************************************************************)
\* C2: when GenerateStrips returns, every non-degenerate triangle that the
\* strip rule reads from a STRIP group has the cyclic vertex orientation of
\* an input triangle of its own: the orientations of the STRIP groups are a
\* sub-multiset of the orientations of the input.
C2_WindingPreserved ==
    pc = "done" =>
        SubMultiset(Orientations(GroupsTriangles(StripGroupsOf(primGroups))),
                    Orientations(InputTriangles))

(***************************************************************************)
(* C3.  The groups of stitched strip mode.                                 *)
(***************************************************************************)
\* C3: with listsOnly false and stitchStrips true, the groups returned are
\* one STRIP group that holds the whole stream of CreateStrips, followed by
\* one LIST group exactly when the leftover face list is not empty, and the
\* assertion that CreateStrips reported one separate strip has not failed.
C3_StitchedGroups ==
    (pc = "done" /\ ~bListsOnly /\ bStitchStrips) =>
        /\ Len(primGroups) = (IF outFaceList # << >> THEN 2 ELSE 1)
        /\ primGroups[1].type = "STRIP"
        /\ primGroups[1].indices = stripIndices
        /\ primGroups[1].numIndices = Len(stripIndices)
        /\ Len(primGroups) = 2 => primGroups[2].type = "LIST"
        /\ "numSeparateStrips == 1" \notin asserts

\* a stitched stream returned with a LIST group behind it
C3_Witness ==
    /\ pc = "done" /\ ~bListsOnly /\ bStitchStrips
    /\ asserts = {}
    /\ Len(stripIndices) > 3
    /\ Len(primGroups) = 2
    /\ primGroups[2].type = "LIST"

(***************************************************************************)
(* C4.  The groups of unstitched strip mode.                               *)
(***************************************************************************)
\* the segments of a stream that end in -1, in order
RECURSIVE Segments(_, _)
Segments(stream, current) ==
    IF stream = << >> THEN << >>
    ELSE IF Head(stream) = -1
    THEN << current >> \o Segments(Tail(stream), << >>)
    ELSE Segments(Tail(stream), Append(current, Head(stream)))

\* C4: with listsOnly false and stitchStrips false, the STRIP groups returned
\* are the segments of the stream of CreateStrips that the sentinel -1
\* delimits, in order: there are as many as pieces emitted, the i-th group
\* holds the indices CreateStrips emits for the i-th piece, and no group
\* holds a -1.
C4_UnstitchedGroups ==
    (pc = "done" /\ ~bListsOnly /\ ~bStitchStrips) =>
        LET strips == StripGroupsOf(primGroups)
        IN  /\ Len(strips) = Len(outStrips)
            /\ [ i \in 1..Len(strips) |-> strips[i].indices ]
                   = Segments(stripIndices, << >>)
            /\ \A i \in 1..Len(strips) :
                  /\ strips[i].numIndices = Len(strips[i].indices)
                  /\ \A k \in 1..Len(strips[i].indices) :
                        strips[i].indices[k] # -1
                  /\ Append(strips[i].indices, -1)
                        = CreateStrips(faces, << outStrips[i] >>,
                                       FALSE).stripIndices
            /\ \A i \in 1..Len(primGroups) :
                  primGroups[i].type = "STRIP" => i <= Len(strips)

\* three pieces returned as three STRIP groups
C4_Witness ==
    /\ pc = "done" /\ ~bListsOnly /\ ~bStitchStrips
    /\ Len(outStrips) = 3
    /\ Len(StripGroupsOf(primGroups)) = 3
    /\ Len(stripIndices) > 9

(***************************************************************************)
(* C5.  The sentinel in the stream of CreateStrips.                        *)
(***************************************************************************)
\* the stream of CreateStrips is there and stitching is off
UnstitchedStream ==
    /\ pc \in { "Output", "done" }
    /\ ~bListsOnly /\ ~bStitchStrips

\* the slots of the stream that hold -1
SentinelSlots == { k \in 1..Len(stripIndices) : stripIndices[k] = -1 }

\* C5 as claimed: with stitching off, -1 appears in the stream of
\* CreateStrips only between two strips: never inside a strip, never as the
\* first and never as the last element.
C5_SentinelOnlyBetween ==
    UnstitchedStream =>
        /\ 1 \notin SentinelSlots
        /\ Len(stripIndices) \notin SentinelSlots
        /\ Cardinality(SentinelSlots) = Max(Len(outStrips) - 1, 0)

\* C5 as amended: with stitching off, -1 appears in the stream of
\* CreateStrips once behind every strip, the last strip included: it is the
\* last element of a stream that is not empty, it is never the first
\* element, no two are adjacent, there are as many as strips and as
\* numSeparateStrips counts, and the indices before each are those of one
\* whole strip, so none is inside a strip.
C5_SentinelEndsEveryStrip ==
    UnstitchedStream =>
        /\ 1 \notin SentinelSlots
        /\ stripIndices # << >> => Len(stripIndices) \in SentinelSlots
        /\ \A k \in SentinelSlots : k + 1 \notin SentinelSlots
        /\ Cardinality(SentinelSlots) = Len(outStrips)
        /\ Cardinality(SentinelSlots) = numSeparateStrips
        /\ \A i \in 1..Len(outStrips) :
              Len(Segments(stripIndices, << >>)[i]) >= Len(outStrips[i]) + 2

\* a stream of two strips, each with its -1 behind it
C5_Witness ==
    /\ UnstitchedStream
    /\ Len(outStrips) = 2
    /\ Cardinality(SentinelSlots) = 2
    /\ stripIndices[Len(stripIndices)] = -1

(***************************************************************************)
(* C6.  The minimum strip size.                                            *)
(***************************************************************************)
\* the faces of the piece are all in the leftover face list
Spilled(piece) ==
    \A k \in 1..Len(piece) :
        \E n \in 1..Len(outFaceList) : outFaceList[n] = piece[k]

\* C6: when GenerateStrips returns in strip mode with minStripSize > 0 and
\* no assertion failed, every piece behind a STRIP group (the group itself
\* when stitching is off) has at least minStripSize real triangles, and
\* every piece with fewer has its triangles in the LIST group.
C6_MinimumStripSize ==
    (pc = "done" /\ ~bListsOnly /\ minStripSize > 0 /\ asserts = {}) =>
        /\ \A i \in 1..Len(outStrips) :
              NumReal(faces, outStrips[i]) >= minStripSize
        /\ \A i \in 1..Len(tempStrips) :
              NumReal(faces, tempStrips[i]) < minStripSize
                  => Spilled(tempStrips[i])

(***************************************************************************)
(* C7.  The group of listsOnly mode.                                       *)
(***************************************************************************)
\* C7: in listsOnly mode GenerateStrips returns one group, a LIST, whose
\* numIndices is the number of slots written and three times the number of
\* its triangles: the real triangles of the strip pieces first, piece by
\* piece and face by face, then the triangles of the leftover list.
C7_ListsOnlyGroup ==
    (pc = "done" /\ bListsOnly) =>
        /\ Len(primGroups) = 1
        /\ primGroups[1].type = "LIST"
        /\ primGroups[1].numIndices = Len(primGroups[1].indices)
        /\ LET ts == Triples(primGroups[1].indices)
               real == RealFaces(faces, Flatten(outStrips))
               tri(f) == << faces[f].m_v0, faces[f].m_v1, faces[f].m_v2 >>
           IN  /\ primGroups[1].numIndices = 3 * Len(ts)
               /\ Len(ts) = Len(real) + Len(outFaceList)
               /\ \A k \in 1..Len(real) : ts[k] = tri(real[k])
               /\ \A k \in 1..Len(outFaceList) :
                     ts[Len(real) + k] = tri(outFaceList[k])

\* a list of a strip piece with a degenerate in it, and a list of a strip
\* piece followed by leftover faces
C7_Witness ==
    /\ pc = "done" /\ bListsOnly
    /\ outStrips # << >>
    /\ \/ Len(RealFaces(faces, Flatten(outStrips))) < Len(Flatten(outStrips))
       \/ outFaceList # << >>
    /\ primGroups[1].numIndices >= 9

(***************************************************************************)
(* C8.  Degenerates in LIST groups.                                        *)
(***************************************************************************)
\* C8: when GenerateStrips returns, no LIST group, the one of listsOnly mode
\* or the last one of strip mode, holds a triple with two equal indices.
C8_NoDegenerateInList ==
    pc = "done" =>
        \A i \in 1..Len(primGroups) :
            primGroups[i].type = "LIST" =>
                \A k \in 1..Len(Triples(primGroups[i].indices)) :
                    IsRealTriangle(Triples(primGroups[i].indices)[k])

(***************************************************************************)
(* C9.  Empty input.                                                       *)
(***************************************************************************)
\* C9: on an input with no indices, or with degenerate triangles only,
\* GenerateStrips does not fault on the empty face table, fails no
\* assertion, and returns zero groups, in every configuration.
C9_EmptyInputLegal ==
    InputTriangles = << >> =>
        /\ pc \notin { "crashed", "aborted" }
        /\ asserts = {}
        /\ pc = "done" => primGroups = << >>

(***************************************************************************)
(* C10.  The order of the strips in the output.                            *)
(***************************************************************************)
\* the neighbors per face of a piece, as SplitUpStripsAndOptimize counts them
NeighborsPerFace(piece) ==
    << SumNeighbors(edges, edgeInfos, faces, piece), Len(piece) >>

\* C10 as claimed: in strip mode the strips are emitted, as the STRIP groups
\* when stitching is off and inside the stitched stream otherwise, in the
\* order in which FindAllStrips committed them: the pieces that CreateStrips
\* is given are the pieces kept, in commit order.
C10_CommitOrder ==
    (pc = "done" /\ ~bListsOnly) => outStrips = tempStrips2

\* C10 as amended: in strip mode the pieces kept are emitted each exactly
\* once, whole and with their faces in commit order, but in the order the
\* reorder pass of SplitUpStripsAndOptimize picks them, which need not be
\* commit order: first the piece with the fewest neighbors per face, the
\* earliest committed of those, then the pieces the vertex cache favours.
C10_OptimizerOrder ==
    (pc = "done" /\ ~bListsOnly) =>
        /\ Len(outStrips) = Len(tempStrips2)
        /\ \A j \in 1..Len(tempStrips2) :
              Cardinality({ i \in 1..Len(outStrips) :
                              outStrips[i] = tempStrips2[j] }) = 1
        /\ \A j \in 1..Len(tempStrips2) :
              /\ ~QLess(NeighborsPerFace(tempStrips2[j]),
                        NeighborsPerFace(outStrips[1]))
              /\ ~QLess(NeighborsPerFace(outStrips[1]),
                        NeighborsPerFace(tempStrips2[j]))
                    => \E i \in 1..j : tempStrips2[i] = outStrips[1]

\* two pieces emitted against commit order
C10_Witness ==
    /\ pc = "done" /\ ~bListsOnly
    /\ asserts = {}
    /\ Len(outStrips) = 2
    /\ outStrips[1] = tempStrips2[2]
    /\ outStrips[2] = tempStrips2[1]

(***************************************************************************)
(* Memory.                                                                 *)
(***************************************************************************)
\* the elements of a sequence
Range(seq) == { seq[i] : i \in 1..Len(seq) }

\* no element occurs twice
NoRepeats(seq) ==
    \A i, j \in 1..Len(seq) : seq[i] = seq[j] => i = j

\* the faces the code still reads from this position on: the face table and
\* the edges' faces while strips are built, the committed strips not yet
\* split, the pieces, the pieces kept, the leftover faces, the pieces in
\* emission order
LiveFaces ==
    (IF pc \in { "BuildStripifyInfo", "FindAllStrips" }
     THEN Range(faceInfos)
     ELSE {})
    \cup (IF pc \in { "BuildStripifyInfo", "FindAllStrips", "SplitUpStrips",
                      "RemoveSmallStrips", "Optimize" }
          THEN { edges[e].m_face0 : e \in 1..Len(edges) }
               \cup { edges[e].m_face1 : e \in 1..Len(edges) }
          ELSE {})
    \cup (IF pc = "SplitUpStrips"
          THEN UNION { Range(allStrips[k].m_faces) :
                         k \in (splitCtr + 1)..Len(allStrips) }
          ELSE {})
    \cup (IF pc \in { "SplitUpStrips", "RemoveSmallStrips" }
          THEN Range(Flatten(tempStrips)) ELSE {})
    \cup (IF pc = "Optimize"
          THEN Range(Flatten(tempStrips2)) \cup Range(outFaceList) ELSE {})
    \cup (IF pc \in { "CreateStrips", "Output" }
          THEN Range(Flatten(outStrips)) \cup Range(outFaceList) ELSE {})

\* C11: no face is deleted twice, no face or edge is read after it was
\* deleted, and when GenerateStrips has returned every face allocated during
\* the call (real faces, dropped duplicates, the degenerates of winning and
\* of losing experiments) and every edge has been deleted exactly once, each
\* edge on the second of exactly two Unref calls.
C11_NoOrphanedAllocations ==
    /\ NoRepeats(deletedFaces)
    /\ NoRepeats(deletedEdges)
    /\ freedReads = {}
    /\ LiveFaces \cap Range(deletedFaces) = {}
    /\ \A e \in Range(deletedEdges) : edges[e].m_refCount = 0
    /\ pc = "done" =>
          /\ Range(deletedFaces) = 1..Len(faces)
          /\ Range(deletedEdges) = 1..Len(edges)

\* GenerateStrips has returned after a round in which a losing experiment
\* had synthesized a degenerate, and with a degenerate of a winning
\* experiment deleted at a piece boundary or at the end
C11_Witness ==
    /\ pc = "done"
    /\ Len(edges) > 0
    /\ \E i, j \in 1..Len(deletedFaces) :
          /\ i < j
          /\ IsDegenerateFace(faces[deletedFaces[i]])
          /\ ~IsDegenerateFace(faces[deletedFaces[j]])
          /\ \E k \in 1..Len(faces) :
                IsDegenerateFace(faces[k]) /\ faces[k].m_stripId >= 0

(***************************************************************************)
(* A second call on the result of the first.                               *)
(***************************************************************************)
\* C12: when a lists-only call on the indices of the group of a first
\* lists-only call has returned, its group holds the same multiset of
\* triangles as the group of the first call.
C12_ListsOnlyIdempotent ==
    (pc = "done" /\ bListsOnly /\ firstGroups # << >>) =>
        /\ Len(primGroups) = 1
        /\ primGroups[1].type = "LIST"
        /\ SameMultiset(Triples(primGroups[1].indices),
                        Triples(firstGroups[1].indices))

(***************************************************************************)
(* RemapIndices.                                                           *)
(***************************************************************************)
\* the index streams of the groups, one after the other
RECURSIVE Streams(_)
Streams(groups) ==
    IF groups = << >> THEN << >>
    ELSE Head(groups).indices \o Streams(Tail(groups))

\* the number of distinct values met in old before the first occurrence of
\* old[p]
FirstTouch(old, p) ==
    Cardinality({ old[q] : q \in { n \in 1..p : \A k \in 1..n : old[k] # old[p] } })

\* C13: RemapIndices renumbers in first-touch order (scanning the groups in
\* order, the k-th distinct old index met becomes k - 1), one old index has
\* one new index and distinct old indices distinct new ones, so the old
\* streams are recovered from the new ones by the inverse map; the types
\* and lengths of the groups are unchanged.
C13_RemapFirstTouch ==
    pc = "remapped" =>
        /\ Len(remappedGroups) = Len(primGroups)
        /\ \A i \in 1..Len(primGroups) :
              /\ remappedGroups[i].type = primGroups[i].type
              /\ remappedGroups[i].numIndices = primGroups[i].numIndices
              /\ Len(remappedGroups[i].indices) = Len(primGroups[i].indices)
        /\ \A p \in 1..Len(Streams(primGroups)) :
              Streams(remappedGroups)[p] = FirstTouch(Streams(primGroups), p)
        /\ \A p, q \in 1..Len(Streams(primGroups)) :
              Streams(remappedGroups)[p] = Streams(remappedGroups)[q]
                  <=> Streams(primGroups)[p] = Streams(primGroups)[q]
        /\ \E inverse \in [ 0..maxIndex -> 0..maxIndex ] :
              \A i \in 1..Len(primGroups) :
                  primGroups[i].indices
                      = [ j \in 1..Len(remappedGroups[i].indices) |->
                            inverse[remappedGroups[i].indices[j]] ]

\* two groups remapped, with an old index met in both and an index that
\* changes
C13_Witness ==
    /\ pc = "remapped"
    /\ Len(primGroups) >= 2
    /\ \E j \in 1..Len(primGroups[1].indices) :
          \E k \in 1..Len(primGroups[2].indices) :
              /\ primGroups[1].indices[j] = primGroups[2].indices[k]
              /\ remappedGroups[2].indices[k] # primGroups[2].indices[k]
    /\ \E k \in 1..Len(primGroups[2].indices) :
          \A j \in 1..Len(primGroups[1].indices) :
              primGroups[1].indices[j] # primGroups[2].indices[k]

(***************************************************************************)
(* Stitching.                                                              *)
(***************************************************************************)
\* C14: with cache size 16, stitching on and minimum strip size 0, the input
\* 0,1,2, 3,4,5 returns one STRIP group and no LIST group.  Its indices are
\* 0,1,2,2,3,3,4,5 (the first strip, its last index again, the first index
\* of the second strip again, the second strip) with one more 3 before the
\* second strip, which puts 3,4,5 on an even position: read by the strip
\* rule, the real triangles are 0,1,2 and 3,4,5 in their input winding.
C14_StitchDisjointPair ==
    ( /\ pc = "done" /\ in_indices = DisjointPair
      /\ cacheSize = 16 /\ bStitchStrips /\ minStripSize = 0
      /\ ~bListsOnly ) =>
        /\ Len(primGroups) = 1
        /\ primGroups[1].type = "STRIP"
        /\ primGroups[1].numIndices = 9
        /\ primGroups[1].indices = << 0, 1, 2, 2, 3, 3, 3, 4, 5 >>
        /\ GroupTriangles(primGroups[1]) = << << 0, 1, 2 >>, << 3, 4, 5 >> >>

\* the call on the two disjoint triangles has returned
C14_Witness ==
    /\ pc = "done" /\ in_indices = DisjointPair
    /\ cacheSize = 16 /\ bStitchStrips /\ minStripSize = 0 /\ ~bListsOnly
    /\ asserts = {}
    /\ Len(outStrips) = 2

(***************************************************************************)
(* Edges with more than two faces.                                         *)
(***************************************************************************)
\* the triangle of a face
FaceTriple(f) == << faces[f].m_v0, faces[f].m_v1, faces[f].m_v2 >>

\* the faces of the face table on the edge between a and b, in table order
FacesOnEdge(a, b) ==
    SelectSeq(faceInfos, LAMBDA f : { a, b } \subseteq VertexSet(FaceTriple(f)))

\* the pairs of vertices that are an edge of more than two faces
CrowdedEdges ==
    { ab \in (0..maxIndex) \X (0..maxIndex) :
        ab[1] < ab[2] /\ Len(FacesOnEdge(ab[1], ab[2])) > 2 }

\* the faces that came third or later to one of their edges
ExtraFaces ==
    { f \in Range(faceInfos) :
        \E ab \in CrowdedEdges :
            \E k \in 3..Len(FacesOnEdge(ab[1], ab[2])) :
                FacesOnEdge(ab[1], ab[2])[k] = f }

\* the faces of the table with the triangle of f, rotations included
SameTriangle(f) ==
    { g \in Range(faceInfos) :
        Oriented(FaceTriple(g)) = Oriented(FaceTriple(f)) }

\* C15: when some edge has more than two faces, the call fails no assertion
\* and does not fault; once the face table is built the edge holds the first
\* two of its faces; every input triangle that is not degenerate and no
\* repeat of an earlier one is in the face table; and at return every face
\* that came third or later to an edge is in the output once (a triangle
\* that several faces of the table have is there once for each).
C15_NonManifoldIsWarning ==
    CrowdedEdges # {} =>
        /\ pc \notin { "crashed", "aborted" }
        /\ asserts = {}
        /\ pc # "BuildStripifyInfo" =>
              /\ Len(faceInfos) = Len(DistinctInputTriangles)
              /\ \A ab \in CrowdedEdges :
                    \E e \in 1..Len(edges) :
                        /\ { edges[e].m_v0, edges[e].m_v1 } = { ab[1], ab[2] }
                        /\ edges[e].m_face0 = FacesOnEdge(ab[1], ab[2])[1]
                        /\ edges[e].m_face1 = FacesOnEdge(ab[1], ab[2])[2]
        /\ pc \in { "done", "remapped" } =>
              \A f \in ExtraFaces :
                  Count(Orientations(OutputTriangles), Oriented(FaceTriple(f)))
                      = Cardinality(SameTriangle(f))

(***************************************************************************)
(* Faces without neighbors.                                                *)
(***************************************************************************)
\* the face table is built and no face of it has a face across an edge
NoAdjacency ==
    /\ pc # "BuildStripifyInfo"
    /\ faceInfos # << >>
    /\ \A f \in Range(faceInfos) : NumMissing(edges, edgeInfos, faces, f) = 3

\* the LIST groups and the STRIP groups handed back
ListGroupsOf(groups) == SelectSeq(groups, LAMBDA g : g.type = "LIST")

Committed == { f \in Range(faceInfos) : faces[f].m_stripId >= 0 }

\* C17: on a face table that is not empty FindAllStrips terminates, and then
\* every face of the table has stripId >= 0; a round after which the loop
\* goes on has committed at least one face that was not committed, and the
\* round that ends the loop found every face committed and commits nothing.
C17_TerminatesCommitted ==
    /\ (pc = "FindAllStrips" /\ faceInfos # << >>)
          ~> (pc # "FindAllStrips" /\ Committed = Range(faceInfos))
    /\ [][ (pc = "FindAllStrips" /\ faceInfos # << >>) =>
             IF pc' = "FindAllStrips"
             THEN Committed \subseteq Committed' /\ Committed' # Committed
             ELSE /\ Committed = Range(faceInfos)
                  /\ allStrips' = allStrips /\ faces' = faces ]_vars

\* FindAllStrips has ended after more than one round that committed
C17_Witness ==
    /\ pc = "SplitUpStrips"
    /\ splitCtr = 0
    /\ Len(allStrips) >= 2
    /\ Committed = Range(faceInfos)
    /\ Len(faceInfos) = 3

(***************************************************************************)
(* The experiments of a round.                                             *)
(***************************************************************************)
\* the faces with the marks of all experiments wiped: what is left is what
\* the committed strips wrote
RECURSIVE Unmarked(_)
Unmarked(F) ==
    IF F = << >> THEN << >>
    ELSE << [ Head(F) EXCEPT !.m_experimentId = -1, !.m_testStripId = -1 ] >>
         \o Unmarked(Tail(F))

\* the faces of the strips of an experiment: a face of the heap the round
\* started with by its pointer, a degenerate synthesized in the round by its
\* triangle
ExperimentFaces(F, strips) ==
    [ j \in 1..Len(strips) |->
        [ i \in 1..Len(strips[j].m_faces) |->
            IF strips[j].m_faces[i] <= Len(faces)
            THEN << strips[j].m_faces[i] >>
            ELSE << F[strips[j].m_faces[i]].m_v0, F[strips[j].m_faces[i]].m_v1,
                    F[strips[j].m_faces[i]].m_v2 >> ] ]

\* C18: in every round, each experiment builds the strips it would build if
\* it ran alone on faces that carry no mark of any experiment of this or of
\* an earlier round, and with other strip ids: what it may take depends on
\* the committed strips and on its own claims only.  The strips committed
\* are the strips of the best experiment as that experiment built them,
\* with the faces it claimed.
C18_ExperimentIsolation ==
    RoundToRun =>
        LET round == FindAllStripsRound(edges, edgeInfos, faces, faceInfos,
                       allStrips, stripId, experimentId, meshJump,
                       bFirstTimeResetPoint)
            points == CollectResetPoints(edges, edgeInfos, faces, faceInfos, 0,
                        [ points |-> << >>, meshJump |-> meshJump,
                          bFirst |-> bFirstTimeResetPoint,
                          done |-> FALSE ]).points
            Alone(k) ==
                RunExperiment(edges, edgeInfos, Unmarked(faces),
                  FirstStrip(edges, edgeInfos, Unmarked(faces), points, k,
                             stripId + 100, experimentId),
                  stripId + 200)
        IN  /\ Len(round.experiments) = 6 * Len(points)
            /\ \A k \in 0..(Len(round.experiments) - 1) :
                  ExperimentFaces(Alone(k).F, Alone(k).strips)
                      = ExperimentFaces(round.F, round.experiments[k + 1])
            /\ points # << >> =>
                  /\ Len(round.allStrips)
                        = Len(allStrips)
                            + Len(round.experiments[round.bestIndex + 1])
                  /\ \A j \in 1..Len(round.experiments[round.bestIndex + 1]) :
                        LET built == round.experiments[round.bestIndex + 1][j]
                            kept == round.allStrips[Len(allStrips) + j]
                        IN  /\ kept.m_faces = built.m_faces
                            /\ kept.m_stripId = built.m_stripId
                            /\ \A i \in 1..Len(kept.m_faces) :
                                  round.F[kept.m_faces[i]].m_stripId
                                      = kept.m_stripId

\* a round is about to run on faces that carry marks of the experiments of
\* an earlier round, and in it a later experiment takes a face that an
\* earlier one has taken
C18_Witness ==
    /\ RoundToRun
    /\ \E f \in Range(faceInfos) :
          faces[f].m_stripId < 0 /\ faces[f].m_experimentId >= 0
    /\ LET round == FindAllStripsRound(edges, edgeInfos, faces, faceInfos,
                       allStrips, stripId, experimentId, meshJump,
                       bFirstTimeResetPoint)
       IN  \E a, b \in 1..Len(round.experiments) :
               /\ a < b
               /\ \E ja \in 1..Len(round.experiments[a]) :
                     \E jb \in 1..Len(round.experiments[b]) :
                         Range(round.experiments[a][ja].m_faces)
                           \cap Range(round.experiments[b][jb].m_faces)
                           \cap Range(faceInfos) # {}

(***************************************************************************)
(* The score of an experiment and the commit.                              *)
(***************************************************************************)
\* the faces of the strips of an experiment, and those of them synthesized
\* in the round
RECURSIVE FaceCount(_)
FaceCount(strips) ==
    IF strips = << >> THEN 0
    ELSE Len(Head(strips).m_faces) + FaceCount(Tail(strips))

RECURSIVE SynthesizedCount(_)
SynthesizedCount(strips) ==
    IF strips = << >> THEN 0
    ELSE Cardinality({ i \in 1..Len(Head(strips).m_faces) :
                         Head(strips).m_faces[i] > Len(faces) })
         + SynthesizedCount(Tail(strips))

\* the score of experiment a is below that of experiment b: the scores are
\* (faces - degenerates) / strips
ScoreBelow(a, b) ==
    (FaceCount(a) - SynthesizedCount(a)) * Len(b)
        < (FaceCount(b) - SynthesizedCount(b)) * Len(a)

\* C19: the experiment committed in a round has a score no other experiment
\* of the round exceeds, every experiment created before it has a lower
\* score, and the committed list grows by all its strips, in order, and by
\* nothing else.
C19_BestScoreCommitted ==
    RoundToRun =>
        LET Chosen(round) ==
                round.experiments # << >> =>
                  /\ round.bestIndex \in 0..(Len(round.experiments) - 1)
                  /\ \A k \in 1..Len(round.experiments) :
                        /\ ~ScoreBelow(round.experiments[round.bestIndex + 1],
                                       round.experiments[k])
                        /\ k < round.bestIndex + 1 =>
                              ScoreBelow(round.experiments[k],
                                round.experiments[round.bestIndex + 1])
                  /\ round.allStrips
                        = allStrips
                          \o [ j \in 1..Len(round.experiments[round.bestIndex + 1])
                                |-> [ round.experiments[round.bestIndex + 1][j]
                                        EXCEPT !.m_experimentId = -1 ] ]
            Nothing(round) ==
                round.experiments = << >> => round.allStrips = allStrips
        IN  /\ Chosen(FindAllStripsRound(edges, edgeInfos, faces, faceInfos,
                      allStrips, stripId, experimentId, meshJump,
                      bFirstTimeResetPoint))
            /\ Nothing(FindAllStripsRound(edges, edgeInfos, faces, faceInfos,
                      allStrips, stripId, experimentId, meshJump,
                      bFirstTimeResetPoint))

\* a round in which the best experiment is not the first one, a later one
\* has the same score, and the best one has a synthesized degenerate
C19_Witness ==
    /\ RoundToRun
    /\ LET Tied(round) ==
               /\ round.bestIndex > 0
               /\ SynthesizedCount(round.experiments[round.bestIndex + 1]) > 0
               /\ \E k \in (round.bestIndex + 2)..Len(round.experiments) :
                     /\ ~ScoreBelow(round.experiments[k],
                                    round.experiments[round.bestIndex + 1])
       IN  Tied(FindAllStripsRound(edges, edgeInfos, faces, faceInfos,
                  allStrips, stripId, experimentId, meshJump,
                  bFirstTimeResetPoint))

(***************************************************************************)
(* FindTraversal, as FindAllStrips calls it.                               *)
(***************************************************************************)
\* the successful calls of FindTraversal of one experiment, in order: the
\* faces at the call, the just-completed strip and the answer
RECURSIVE TraversalCalls(_, _, _)
TraversalCalls(E, EI, x) ==
    LET stripIter == x.strips[Len(x.strips)]
        Built(b) == [ F |-> b.F, strips |-> Append(x.strips, b.strip),
                      stripId |-> x.stripId + 1 ]
        Traverse(startInfo) ==
            IF ~startInfo.found THEN << >>
            ELSE << [ F |-> x.F, strip |-> stripIter, startInfo |-> startInfo ] >>
                 \o TraversalCalls(E, EI,
                      Built(Build(E, EI, x.F,
                              NvStripInfo(startInfo.m_startFace,
                                          startInfo.m_startEdge,
                                          startInfo.m_toV1, x.stripId,
                                          stripIter.m_experimentId))))
    IN  Traverse(FindTraversal(E, EI, x.F, stripIter))

\* the successful calls of the experiments k, k + 1, ... of the round
RECURSIVE RoundTraversals(_, _, _, _, _, _, _)
RoundTraversals(E, EI, points, k, sid0, eid0, y) ==
    IF k >= 6 * Len(points) THEN << >>
    ELSE LET Built(b) == [ F |-> b.F, strips |-> << b.strip >>,
                           stripId |-> y.stripId ]
             Ran(x) == [ F |-> x.F, stripId |-> x.stripId ]
         IN  TraversalCalls(E, EI,
                Built(Build(E, EI, y.F,
                        FirstStrip(E, EI, y.F, points, k, sid0, eid0))))
             \o RoundTraversals(E, EI, points, k + 1, sid0, eid0,
                   Ran(RunExperiment(E, EI, y.F,
                         FirstStrip(E, EI, y.F, points, k, sid0, eid0),
                         y.stripId)))

\* the successful calls of the round about to run
Traversals ==
    LET Calls(p) ==
            RoundTraversals(edges, edgeInfos, p.points, 0, stripId,
              experimentId,
              [ F |-> faces, stripId |-> stripId + 6 * Len(p.points) ])
    IN  Calls(CollectResetPoints(edges, edgeInfos, faces, faceInfos, 0,
                [ points |-> << >>, meshJump |-> meshJump,
                  bFirst |-> bFirstTimeResetPoint, done |-> FALSE ]))

\* the vertex the walk of FindTraversal starts from
ExitVertex(strip) ==
    IF strip.m_toV1 THEN edges[strip.m_startEdge].m_v1
    ELSE edges[strip.m_startEdge].m_v0

\* the face on the returned edge that is not the returned face
OtherFaceOnEdge(call) ==
    IF edges[call.startInfo.m_startEdge].m_face0 = call.startInfo.m_startFace
    THEN edges[call.startInfo.m_startEdge].m_face1
    ELSE edges[call.startInfo.m_startEdge].m_face0

\* the returned face is neither committed nor claimed by the experiment of
\* the strip, it lies on the returned edge, and the returned edge has the
\* exit vertex of the strip as an end
UnclaimedAtExit(call) ==
    /\ call.startInfo.m_startFace \in 1..Len(faces)
    /\ call.F[call.startInfo.m_startFace].m_stripId < 0
    /\ call.F[call.startInfo.m_startFace].m_experimentId
          # call.strip.m_experimentId
    /\ call.startInfo.m_startEdge \in 1..Len(edges)
    /\ call.startInfo.m_startFace
          \in { edges[call.startInfo.m_startEdge].m_face0,
                edges[call.startInfo.m_startEdge].m_face1 }
    /\ ExitVertex(call.strip)
          \in { edges[call.startInfo.m_startEdge].m_v0,
                edges[call.startInfo.m_startEdge].m_v1 }

\* the statement with the other face of the edge in the just-completed strip
C20_OtherFaceInStrip ==
    RoundToRun =>
        LET Each(calls) ==
                \A n \in 1..Len(calls) :
                    /\ UnclaimedAtExit(calls[n])
                    /\ OtherFaceOnEdge(calls[n])
                          \in Range(calls[n].strip.m_faces)
        IN  Each(Traversals)

\* C20: whenever FindTraversal succeeds in a round, the face it returns is
\* neither committed nor claimed by the current experiment, the edge it
\* returns holds that face and ends at the exit vertex of the
\* just-completed strip, and the other face of that edge exists and is not
\* a face of the just-completed strip.
C20_OtherFaceOutsideStrip ==
    RoundToRun =>
        LET Each(calls) ==
                \A n \in 1..Len(calls) :
                    /\ UnclaimedAtExit(calls[n])
                    /\ OtherFaceOnEdge(calls[n]) \in 1..Len(faces)
                    /\ OtherFaceOnEdge(calls[n])
                          \notin Range(calls[n].strip.m_faces)
        IN  Each(Traversals)

\* the round on the triangle and the pair about to run: FindTraversal
\* succeeds after the strip of the lone triangle 0,1,2, with a face of the
\* pair as its answer and the other face of the pair on the returned edge
C20_Witness ==
    /\ RoundToRun
    /\ in_indices = VertexFan
    /\ LET Some(calls) ==
               \E n \in 1..Len(calls) :
                   /\ calls[n].strip.m_faces = << 1 >>
                   /\ ExitVertex(calls[n].strip) = 2
                   /\ { calls[n].startInfo.m_startFace,
                        OtherFaceOnEdge(calls[n]) } = { 2, 3 }
                   /\ UnclaimedAtExit(calls[n])
       IN  Some(Traversals)

(***************************************************************************)
(* The shape of a built strip.                                             *)
(***************************************************************************)
\* the vertices of face f of the heap F
FaceVertices(F, f) == { F[f].m_v0, F[f].m_v1, F[f].m_v2 }

\* the positions of the real faces of a face list, in order
RealPositions(F, fs) ==
    SelectSeq([ i \in 1..Len(fs) |-> i ],
              LAMBDA i : ~IsDegenerateFace(F[fs[i]]))

\* the shape of strip, built on a mesh of n faces with the heap F as result
BuiltShape(F, n, strip) ==
    LET fs == strip.m_faces
        Synth(i) == fs[i] > n
        Shaped(real) ==
            \A k \in 1..(Len(real) - 1) :
                Cardinality(FaceVertices(F, fs[real[k]])
                            \cap FaceVertices(F, fs[real[k + 1]])) >= 2
    IN  /\ fs # << >>
        /\ ~Synth(1) /\ ~Synth(Len(fs))
        /\ \A i \in 1..Len(fs) :
              /\ Synth(i) <=> IsDegenerateFace(F[fs[i]])
              /\ Synth(i) =>
                    /\ F[fs[i]].m_v0 = F[fs[i]].m_v2
                    /\ F[fs[i]].m_v0 # F[fs[i]].m_v1
                    /\ i < Len(fs) /\ ~Synth(i + 1)
        /\ Shaped(RealPositions(F, fs))
        /\ strip.m_numDegenerates
              = Cardinality({ i \in 1..Len(fs) : Synth(i) })
        /\ strip.m_numDegenerates = Len(strip.m_Degenerates)
        /\ Range(strip.m_Degenerates) = { fs[i] : i \in { k \in 1..Len(fs) : Synth(k) } }

\* C30: every strip built in a round has a face list that starts and ends
\* with a real face; each synthesized degenerate in it has the form (a,b,a)
\* and is followed at once by a real face, so no two of them are in a row;
\* two real faces that follow each other once the degenerates are skipped
\* have two vertices in common; and m_numDegenerates is the number of
\* synthesized degenerates of the list and the length of m_Degenerates.
C30_BuiltStripShape ==
    RoundToRun =>
        LET Each(round) ==
                \A k \in 1..Len(round.experiments) :
                    \A j \in 1..Len(round.experiments[k]) :
                        BuiltShape(round.F, Len(faces), round.experiments[k][j])
        IN  Each(FindAllStripsRound(edges, edgeInfos, faces, faceInfos,
                   allStrips, stripId, experimentId, meshJump,
                   bFirstTimeResetPoint))

\* a round that builds a strip with a degenerate found backward, one that
\* is followed in the list by the start face of the strip
C30_Witness ==
    /\ RoundToRun
    /\ LET Some(round) ==
               \E k \in 1..Len(round.experiments) :
                   \E j \in 1..Len(round.experiments[k]) :
                       LET strip == round.experiments[k][j]
                       IN  \E i \in 1..(Len(strip.m_faces) - 1) :
                               /\ strip.m_faces[i] > Len(faces)
                               /\ strip.m_faces[i + 1] = strip.m_startFace
                               /\ i > 1
       IN  Some(FindAllStripsRound(edges, edgeInfos, faces, faceInfos,
                  allStrips, stripId, experimentId, meshJump,
                  bFirstTimeResetPoint))

(***************************************************************************)
(* The split of long strips.  A band is a mesh cut from one long strip:    *)
(* the triangles that the strip rule reads from the indices 0, 1, 2, ...   *)
(* with the last index but one repeated after the triangles named in       *)
(* turns, where the band turns around a vertex.                            *)
(***************************************************************************)
BandLen == 9

RECURSIVE BandStream(_, _, _, _)
BandStream(n, turns, k, s) ==
    IF k >= n THEN s
    ELSE BandStream(n, turns, k + 1,
           IF k \in turns
           THEN s \o << s[Len(s) - 1], k + 2 >>
           ELSE Append(s, k + 2))

Band(n, turns) ==
    Flatten(NonDegenerate(StripRule(BandStream(n, turns, 0, << 0, 1 >>), 0)))

\* the bands: no turn, one turn, or two turns
BandInputs ==
    { Band(BandLen, turns) :
        turns \in { {} } \cup { { k } : k \in 1..(BandLen - 1) }
                  \cup { { k, k + 3 } : k \in 1..(BandLen - 4) } }

\* the values given to SetCacheSize for the bands: thresholds 1, 2, 4, 5
\* and 10
BandCacheSizes == {7, 8, 10, 11, 16}

\* one call on a band up to the end of the split
SplitInit ==
    /\ in_indices \in BandInputs
    /\ cacheSize \in BandCacheSizes
    /\ bStitchStrips = TRUE
    /\ minStripSize = 0
    /\ bListsOnly = FALSE
    /\ Constructed

SplitNext ==
    \/ BuildStripifyInfo
    \/ FindAllStrips
    \/ SplitUpStrips

SplitSpec == SplitInit /\ [][SplitNext]_vars

\* the real faces of a face list, in order
RealOf(fs) == SelectSeq(fs, LAMBDA f : ~IsDegenerateFace(faces[f]))

\* the real faces of a list of pieces, in order
RECURSIVE RealOfPieces(_)
RealOfPieces(pieces) ==
    IF pieces = << >> THEN << >>
    ELSE RealOf(Head(pieces)) \o RealOfPieces(Tail(pieces))

\* the numbers of real faces of the pieces of a strip of R real faces under
\* the threshold t, as the statement of the split gives them
PieceSizes(R, t) ==
    IF R <= t THEN << R >>
    ELSE IF (R % t) = 0 THEN [ j \in 1..(R \div t) |-> t ]
    ELSE IF (R % t) < 4
    THEN [ j \in 1..(R \div t) |->
             IF j = (R \div t) THEN t + (R % t) ELSE t ]
    ELSE [ j \in 1..((R \div t) + 1) |->
             IF j = (R \div t) + 1 THEN (R % t) ELSE t ]

\* the pieces the step adds to tempStrips
NewPieces == SubSeq(tempStrips', Len(tempStrips) + 1, Len(tempStrips'))

\* C21: the split of a committed strip with R real faces under the
\* threshold t = max(1, cacheSize - 6) reads no face past the end of the
\* strip and adds to the pieces: the whole face list if R <= t; otherwise
\* R div t pieces of t real faces, the last of them with the R mod t left
\* over if that is 1 to 3, and one more piece of R mod t real faces if that
\* is 4 or more.  The real faces of the pieces, in order, are the real
\* faces of the strip in order.
C21_SplitSizes ==
    [][ pc = "SplitUpStrips" =>
          LET fs == allStrips[splitCtr + 1].m_faces
              t == IF cacheSize - 6 > 1 THEN cacheSize - 6 ELSE 1
          IN  /\ pc' # "crashed"
              /\ Len(RealOf(fs)) <= t => NewPieces = << fs >>
              /\ [ j \in 1..Len(NewPieces) |-> Len(RealOf(NewPieces[j])) ]
                    = PieceSizes(Len(RealOf(fs)), t)
              /\ RealOfPieces(NewPieces) = RealOf(fs)
      ]_vars

\* a strip of nine real faces with a degenerate was split under the
\* threshold 5 into a piece of five real faces and a tail of four
C21_Witness ==
    /\ pc = "RemoveSmallStrips"
    /\ cacheSize = 11
    /\ Len(allStrips) = 1
    /\ Len(RealOf(allStrips[1].m_faces)) = 9
    /\ Len(allStrips[1].m_faces) > 9
    /\ Len(tempStrips) = 2
    /\ Len(RealOf(tempStrips[1])) = 5
    /\ Len(RealOf(tempStrips[2])) = 4

(***************************************************************************)
(* The degenerates at the piece boundaries.                                *)
(***************************************************************************)
\* the number of real faces of fs before position i
RealBefore(fs, i) == Len(RealOf(SubSeq(fs, 1, i - 1)))

\* the numbers of real faces at which a piece of the split ends and a next
\* piece starts
RECURSIVE Boundaries(_, _)
Boundaries(sizes, sum) ==
    IF Len(sizes) <= 1 THEN {}
    ELSE { sum + Head(sizes) } \cup Boundaries(Tail(sizes), sum + Head(sizes))

\* the positions of fs that hold a degenerate between the last real face of
\* a piece and the first real face of the next
BoundaryDegenerates(fs, t) ==
    { i \in 1..Len(fs) :
        /\ IsDegenerateFace(faces[fs[i]])
        /\ RealBefore(fs, i)
              \in Boundaries(PieceSizes(Len(RealOf(fs)), t), 0) }

\* fs without the positions in drop
Without(fs, drop) ==
    LET Keep(ps) == [ k \in 1..Len(ps) |-> fs[ps[k]] ]
    IN  Keep(SelectSeq([ i \in 1..Len(fs) |-> i ], LAMBDA i : i \notin drop))

\* C22: every piece the split of a committed strip adds starts with a real
\* face and ends with a real face; the faces freed by the split are the
\* degenerates of the strip that sit between the last real face of one
\* piece and the first real face of the next, each freed once; every other
\* face of the strip, degenerates included, is in the pieces, in the order
\* of the strip.
C22_BoundaryDegenerates ==
    [][ pc = "SplitUpStrips" =>
          LET fs == allStrips[splitCtr + 1].m_faces
              t == IF cacheSize - 6 > 1 THEN cacheSize - 6 ELSE 1
              Dropped(drop) ==
                  /\ deletedFaces'
                        = deletedFaces
                          \o [ k \in 1..(Len(deletedFaces') - Len(deletedFaces))
                                |-> (deletedFaces')[Len(deletedFaces) + k] ]
                  /\ Len(deletedFaces') - Len(deletedFaces) = Cardinality(drop)
                  /\ { (deletedFaces')[k] :
                          k \in (Len(deletedFaces) + 1)..Len(deletedFaces') }
                        = { fs[i] : i \in drop }
                  /\ Flatten(NewPieces) = Without(fs, drop)
          IN  /\ \A j \in 1..Len(NewPieces) :
                    /\ NewPieces[j] # << >>
                    /\ ~IsDegenerateFace(faces[NewPieces[j][1]])
                    /\ ~IsDegenerateFace(faces[NewPieces[j][Len(NewPieces[j])]])
              /\ Dropped(BoundaryDegenerates(fs, t))
      ]_vars

\* a strip was split into several pieces with one of its degenerates freed
\* at a boundary and another kept inside a piece
C22_Witness ==
    /\ pc = "RemoveSmallStrips"
    /\ Len(allStrips) = 1
    /\ Len(tempStrips) >= 2
    /\ \E i, k \in 1..Len(allStrips[1].m_faces) :
          /\ IsDegenerateFace(faces[allStrips[1].m_faces[i]])
          /\ IsDegenerateFace(faces[allStrips[1].m_faces[k]])
          /\ allStrips[1].m_faces[i] \in Range(deletedFaces)
          /\ allStrips[1].m_faces[i] \notin Range(Flatten(tempStrips))
          /\ allStrips[1].m_faces[k] \in Range(Flatten(tempStrips))
          /\ allStrips[1].m_faces[k] \notin Range(deletedFaces)

(***************************************************************************)
(* The polarity test of the reorder pass.                                  *)
(***************************************************************************)
\* the CW value of a piece by the first triangle CreateStrips writes for it
CanonicalCW(F, fs) ==
    LET Wound(t) == IsCW(F[fs[1]], t.m_v0, t.m_v1)
    IN  Wound(CreateFirstFace(F, fs))

\* the CW value of a piece by the first triangle the reorder pass computes
ReorderCW(F, fs) ==
    LET Wound(t) == IsCW(F[fs[1]], t.m_v0, t.m_v1)
    IN  Wound(OptimizeFirstFace(F, fs))

\* the choices of the while(1) loop of the reorder pass, in order: the
\* cache, the visited pieces and bWantsCW before the choice, and the piece
\* chosen (0-based)
RECURSIVE ReorderChoices(_, _, _)
ReorderChoices(F, pieces, o) ==
    LET Take(b) ==
            LET best == pieces[b[1] + 1]
            IN  IF b[2] = << -1, 1 >> THEN << >>
                ELSE << [ vcache |-> o.vcache, visited |-> o.visited,
                          bWantsCW |-> o.bWantsCW, chosen |-> b[1] ] >>
                     \o ReorderChoices(F, pieces,
                          [ vcache |-> UpdateCacheStrip(o.vcache, F, best),
                            visited |-> o.visited \cup { b[1] },
                            bWantsCW |-> IF Len(best) % 2 = 0 THEN o.bWantsCW
                                         ELSE ~o.bWantsCW,
                            bestIndex |-> b[1] ])
    IN  Take(NextPiece(o.vcache, F, pieces, o.visited, o.bWantsCW, 0,
                       o.bestIndex, << -1, 1 >>))

\* the choices of the reorder pass on the pieces of tempStrips2
Choices ==
    IF tempStrips2 = << >> THEN << >>
    ELSE LET Start(firstIndex) ==
                 [ vcache |-> UpdateCacheStrip(VertexCache(StripifierCacheSize),
                                faces, tempStrips2[firstIndex + 1]),
                   visited |-> { firstIndex },
                   bWantsCW |-> Len(tempStrips2[firstIndex + 1]) % 2 = 0,
                   bestIndex |-> 0 ]
         IN  ReorderChoices(faces, tempStrips2,
               Start(FirstPiece(edges, edgeInfos, faces, tempStrips2, 0, 0,
                                << 10000, 1 >>)))

\* the unvisited pieces (0-based) with the highest hit score at a choice
TopPieces(c) ==
    LET U == { i \in 0..(Len(tempStrips2) - 1) : i \notin c.visited }
        Hits(i) == CalcNumHitsStrip(c.vcache, faces, tempStrips2[i + 1])
    IN  { i \in U : \A k \in U : ~QLess(Hits(i), Hits(k)) }

\* the first triangle of every piece is the same in the reorder pass and in
\* CreateStrips, with the same CW value
SameFirstTriangle ==
    \A j \in 1..Len(tempStrips2) :
        /\ OptimizeFirstFace(faces, tempStrips2[j])
              = CreateFirstFace(faces, tempStrips2[j])
        /\ ReorderCW(faces, tempStrips2[j]) = CanonicalCW(faces, tempStrips2[j])

\* at every choice with several pieces at the highest hit score, one of
\* which has the wanted CW value, the piece chosen has the wanted CW value
TieTakesWanted(calls) ==
    \A n \in 1..Len(calls) :
        ( /\ Cardinality(TopPieces(calls[n])) >= 2
          /\ \E i \in TopPieces(calls[n]) :
                CanonicalCW(faces, tempStrips2[i + 1]) = calls[n].bWantsCW )
        => CanonicalCW(faces, tempStrips2[calls[n].chosen + 1])
             = calls[n].bWantsCW

\* C23: when the reorder pass is about to run, the first triangle it
\* computes for each piece is the one CreateStrips computes for it, with the
\* same CW value, and every choice among several pieces of the highest hit
\* score takes a piece of the wanted CW value if there is one.
C23_CanonicalPolarity ==
    pc = "Optimize" => SameFirstTriangle /\ TieTakesWanted(Choices)

(***************************************************************************)
(* The winding of the first triangle of every piece in the stream.        *)
(***************************************************************************)
\* for every strip CreateStrips writes, the place in stripIndices (0-based)
\* where the three indices of its first face begin
RECURSIVE FirstFaceStarts(_, _, _, _, _)
FirstFaceStarts(F, strips, i, stitch, k) ==
    IF i >= Len(strips) THEN << >>
    ELSE LET fs == strips[i + 1]
             End(k1) ==
                 IF stitch
                 THEN IF i # Len(strips) - 1
                      THEN [ k1 EXCEPT !.stripIndices =
                                          Append(@, k1.tLastFace.m_v2) ]
                      ELSE k1
                 ELSE [ k1 EXCEPT !.stripIndices = Append(@, -1),
                                  !.accountForNegatives = @ + 1,
                                  !.numSeparateStrips = @ + 1 ]
             From(k0) ==
                 << Len(k0.stripIndices) - 3 >>
                 \o FirstFaceStarts(F, strips, i + 1, stitch,
                                    End(EmitFaces(F, fs, 1, k0)))
         IN  From(EmitFirstFace(F, fs, i, stitch, k))

\* the same for the strips given to CreateStrips
Starts ==
    FirstFaceStarts(faces, outStrips, 0, bStitchStrips,
        [ stripIndices |-> << >>, tLastFace |-> NvFaceInfo(0, 0, 0),
          accountForNegatives |-> 0, numSeparateStrips |-> 0 ])

\* the output group of piece i (1-based) and where it begins in stripIndices
GroupOf(i) == IF bStitchStrips THEN 1 ELSE i
GroupStart(at) ==
    LET before == { n \in 1..at : stripIndices[n] = -1 }
    IN  IF before = {} THEN 0
        ELSE CHOOSE n \in before : \A m \in before : m <= n

\* the first triangle of piece i is found in its group at the offset o, and
\* o is even exactly if the triangle is wound as the face
WoundByOffset(starts, i) ==
    LET fs == outStrips[i]
        t == CreateFirstFace(faces, fs)
        o == starts[i] - GroupStart(starts[i])
        g == primGroups[GroupOf(i)]
    IN  /\ g.type = "STRIP"
        /\ o + 3 <= Len(g.indices)
        /\ SubSeq(g.indices, o + 1, o + 3) = << t.m_v0, t.m_v1, t.m_v2 >>
        /\ (o % 2 = 0) <=> IsCW(faces[fs[1]], t.m_v0, t.m_v1)

\* C24: in the strip groups returned, the canonical first triangle of every
\* piece begins at an offset from the start of its group that is even
\* exactly if IsCW(first face, v0, v1) holds.
C24_EmitterParity ==
    (pc = "done" /\ ~bListsOnly) =>
        LET All(starts) == \A i \in 1..Len(outStrips) : WoundByOffset(starts, i)
        IN  All(Starts)

\* a stitched stream in which a continuation took the double tap and the
\* extra index, another took the double tap only, and the first piece took
\* an extra index
C24_Witness ==
    /\ pc = "done" /\ ~bListsOnly /\ bStitchStrips
    /\ Len(outStrips) >= 2
    /\ LET Some(starts) ==
              /\ starts[1] = 1
              /\ \E i \in 2..Len(outStrips) :
                    stripIndices[starts[i] - 1] = stripIndices[starts[i] + 1]
                    /\ stripIndices[starts[i]] = stripIndices[starts[i] + 1]
      IN  Some(Starts)

(***************************************************************************)
(* The vertex cache as the reorder pass and RemoveSmallStrips use it.      *)
(***************************************************************************)
\* the vertices of the faces fs in the order UpdateCacheStrip and
\* UpdateCacheFace look them up
RECURSIVE CacheRefs(_, _)
CacheRefs(F, fs) ==
    IF fs = << >> THEN << >>
    ELSE << F[Head(fs)].m_v0, F[Head(fs)].m_v1, F[Head(fs)].m_v2 >>
         \o CacheRefs(F, Tail(fs))

\* the cache before the first reference and after each one
RECURSIVE CacheStates(_, _)
CacheStates(vcache, refs) ==
    IF refs = << >> THEN << vcache >>
    ELSE << vcache >> \o CacheStates(CacheTouch(vcache, Head(refs)), Tail(refs))

\* the references of the reorder pass: the strips in the order they are
\* appended to outStrips; and those of RemoveSmallStrips: the faces in the
\* order they are appended to faceList
StripRefs == CacheRefs(faces, Flatten(outStrips))
FaceRefs == CacheRefs(faces, outFaceList)

\* no vertex in two slots
NoVertexTwice(c) ==
    \A i, k \in 1..Len(c) : (i # k /\ c[i] # -1) => c[i] # c[k]

\* a hit leaves c as it is; a miss puts v at the head, moves every other
\* entry one to the right and drops the last
FifoStep(c, v, d) ==
    IF \E i \in 1..Len(c) : c[i] = v
    THEN d = c
    ELSE /\ Len(d) = Len(c)
         /\ d[1] = v
         /\ \A i \in 2..Len(c) : d[i] = c[i - 1]

FifoWindow(refs) ==
    LET Holds(states) ==
            /\ \A i \in 1..StripifierCacheSize : states[1][i] = -1
            /\ \A n \in 1..Len(states) : NoVertexTwice(states[n])
            /\ \A n \in 1..Len(refs) :
                  FifoStep(states[n], refs[n], states[n + 1])
    IN  Holds(CacheStates(VertexCache(StripifierCacheSize), refs))

\* C25: from all slots -1 and with every reference made by the check and
\* insert of UpdateCacheStrip and UpdateCacheFace, the cache never holds a
\* vertex twice, a hit changes no slot, and a miss puts the vertex in slot 0,
\* moves the others one slot right and drops the last, for every capacity
\* from 1 on.
C25_FifoWindow ==
    pc \in { "CreateStrips", "Output" } =>
        FifoWindow(StripRefs) /\ FifoWindow(FaceRefs)

\* a cache of one slot that saw a hit and a miss that dropped a vertex
C25_Witness ==
    /\ pc \in { "CreateStrips", "Output" }
    /\ StripifierCacheSize = 1
    /\ LET Some(refs, states) ==
              /\ \E n \in 1..Len(refs) : states[n][1] = refs[n]
              /\ \E n \in 1..Len(refs) :
                    states[n][1] \notin { -1, refs[n] }
      IN  Some(StripRefs, CacheStates(VertexCache(1), StripRefs))

(***************************************************************************)
(* The edge records and the face table when BuildStripifyInfo returns.     *)
(***************************************************************************)
\* BuildStripifyInfo has read every triangle and no strip was looked for yet
InfoBuilt ==
    /\ pc = "FindAllStrips"
    /\ experimentId = 0
    /\ allStrips = << >>

\* the edge records met on the chain of the vertex v, walked as FindEdgeInfo
\* walks it: by m_nextV0 from a record whose m_v0 is v, by m_nextV1 from
\* any other
RECURSIVE ChainWalk(_, _, _, _)
ChainWalk(E, infoIter, v, fuel) ==
    IF infoIter = 0 \/ fuel = 0 THEN << >>
    ELSE << infoIter >>
         \o ChainWalk(E, IF E[infoIter].m_v0 = v THEN E[infoIter].m_nextV0
                         ELSE E[infoIter].m_nextV1, v, fuel - 1)

Chain(v) == ChainWalk(edges, edgeInfos[v], v, Len(edges) + 1)

\* the assertion of FindEdgeInfo holds on the whole chain of v
ChainAssert(v) ==
    \A n \in 1..Len(Chain(v)) :
        edges[Chain(v)[n]].m_v0 = v \/ edges[Chain(v)[n]].m_v1 = v

OnePerPair ==
    \A a, b \in 1..Len(edges) :
        a # b => { edges[a].m_v0, edges[a].m_v1 }
                   # { edges[b].m_v0, edges[b].m_v1 }

InChainsOfItsEnds ==
    \A e \in 1..Len(edges) : \A v \in DOMAIN edgeInfos :
        /\ Cardinality({ n \in 1..Len(Chain(v)) : Chain(v)[n] = e })
             = IF v \in { edges[e].m_v0, edges[e].m_v1 } THEN 1 ELSE 0
        /\ ChainAssert(v)

TwoFaceSlots ==
    \A e \in 1..Len(edges) :
        /\ edges[e].m_face0 \in 1..Len(faces)
        /\ edges[e].m_face1 \in 0..Len(faces)
        /\ edges[e].m_face0 # edges[e].m_face1

\* C26: when BuildStripifyInfo returns, no two edge records have the same
\* pair of vertices, every edge record is on the chains of its two vertices
\* and on no other chain (so the assertion of FindEdgeInfo holds on every
\* chain), and every edge record has face0 set and face1 null or another
\* face.
C26_Topology ==
    InfoBuilt => OnePerPair /\ InChainsOfItsEnds /\ TwoFaceSlots

\* three triangles were read, an edge has two faces, and a chain has three
\* records or more
C26_Witness ==
    /\ InfoBuilt
    /\ Len(faceInfos) >= 3
    /\ \E e \in 1..Len(edges) : edges[e].m_face1 # 0
    /\ \E v \in DOMAIN edgeInfos : Len(Chain(v)) >= 3

(***************************************************************************)
(* Repeated triangles in BuildStripifyInfo.                                *)
(***************************************************************************)
\* no two faces of the face table have the same v0, v1 and v2
NoTwins(F, FI) ==
    \A i, k \in 1..Len(FI) :
        i # k => << F[FI[i]].m_v0, F[FI[i]].m_v1, F[FI[i]].m_v2 >>
                  # << F[FI[k]].m_v0, F[FI[k]].m_v1, F[FI[k]].m_v2 >>

\* face0 and face1 of every edge are null or in the face table
NoDroppedFace(E, FI) ==
    \A e \in 1..Len(E) :
        \A f \in { E[e].m_face0, E[e].m_face1 } \ { 0 } :
            \E i \in 1..Len(FI) : FI[i] = f

\* the triangle BuildStripifyInfo reads next is in the face table, with its
\* vertices in the same order
ReadsDuplicate ==
    /\ pc = "BuildStripifyInfo"
    /\ \E i \in 1..Len(faceInfos) :
          << faces[faceInfos[i]].m_v0, faces[faceInfos[i]].m_v1,
             faces[faceInfos[i]].m_v2 >>
            = SubSeq(in_indices, index + 1, index + 3)

\* face0 and face1 of every edge
EdgeFaces(E) == [ e \in 1..Len(E) |-> << E[e].m_face0, E[e].m_face1 >> ]

\* C27: when BuildStripifyInfo returns the face table has no two faces with
\* the same ordered triple and no edge points at a face that is not in the
\* table; and reading a triangle that is in the table, in the same order,
\* leaves the table and face0 and face1 of every edge as they were.
C27_DuplicateUndo ==
    [][ /\ InfoBuilt' => NoTwins(faces', faceInfos')
                           /\ NoDroppedFace(edges', faceInfos')
        /\ ReadsDuplicate => /\ faceInfos' = faceInfos
                              /\ EdgeFaces(edges') = EdgeFaces(edges) ]_vars

\* a repeated triangle was dropped, after it had been written to an edge as
\* the second face, beside an edge that has two faces
C27_Witness ==
    /\ InfoBuilt
    /\ deletedFaces # << >>
    /\ Len(faceInfos) >= 2
    /\ \E e \in 1..Len(edges) : edges[e].m_face1 # 0
    /\ \E e \in 1..Len(edges) :
          /\ edges[e].m_face1 = 0
          /\ \E d \in 1..Len(deletedFaces) :
                { edges[e].m_v0, edges[e].m_v1 }
                  \subseteq { faces[deletedFaces[d]].m_v0,
                              faces[deletedFaces[d]].m_v1,
                              faces[deletedFaces[d]].m_v2 }

(***************************************************************************)
(* The faces of the strips of an experiment and of the committed strips.   *)
(***************************************************************************)
\* the faces of the strips, strip after strip; Build and CommitStrips call
\* MarkTriangle once for each entry, in this order
RECURSIVE FacesOfStrips(_)
FacesOfStrips(strips) ==
    IF strips = << >> THEN << >>
    ELSE Head(strips).m_faces \o FacesOfStrips(Tail(strips))

NoRepeat(fs) == \A i, k \in 1..Len(fs) : i # k => fs[i] # fs[k]

\* the assertion of MarkTriangle holds at every call Build makes for the
\* strips of one experiment: no face is marked twice by the experiment, and
\* none is in a committed strip
BuildMarksHold(strips) ==
    LET NotMarked(fs) ==
            /\ NoRepeat(fs)
            /\ \A i \in 1..Len(fs) :
                  fs[i] <= Len(faces) => ~(faces[fs[i]].m_stripId >= 0)
    IN  NotMarked(FacesOfStrips(strips))

\* both assertions of MarkTriangle hold at every call CommitStrips makes:
\* the stripId of the face is -1 and was not written by an earlier call
CommitMarksHold(strips) ==
    LET NotCommitted(fs) ==
            /\ NoRepeat(fs)
            /\ \A i \in 1..Len(fs) :
                  fs[i] <= Len(faces) => faces[fs[i]].m_stripId = -1
    IN  NotCommitted(FacesOfStrips(strips))

\* C28: in FindAllStrips no face is in two committed strips or twice in one,
\* no face is twice in the strips of one experiment, the assertions of
\* MarkTriangle hold at every call of Build and of CommitStrips, and a
\* stripId that is 0 or more is never written again.
C28_SingleOwnership ==
    [][ /\ pc = "FindAllStrips" => NoRepeat(FacesOfStrips(allStrips'))
        /\ pc # "done" =>
              \A f \in 1..Len(faces) :
                  faces[f].m_stripId >= 0 =>
                      /\ f <= Len(faces')
                      /\ faces'[f].m_stripId = faces[f].m_stripId
        /\ RoundToRun =>
              LET Each(round) ==
                      /\ \A k \in 1..Len(round.experiments) :
                            BuildMarksHold(round.experiments[k])
                      /\ round.experiments # << >> =>
                            CommitMarksHold(
                              round.experiments[round.bestIndex + 1])
              IN  Each(FindAllStripsRound(edges, edgeInfos, faces, faceInfos,
                         allStrips, stripId, experimentId, meshJump,
                         bFirstTimeResetPoint)) ]_vars

\* a round is about to run after a strip of two faces or more was
\* committed, with a face left that is in no committed strip
C28_Witness ==
    /\ RoundToRun
    /\ \E a \in 1..Len(allStrips) : Len(allStrips[a].m_faces) >= 2
    /\ \E i \in 1..Len(faceInfos) : faces[faceInfos[i]].m_stripId = -1

(***************************************************************************)
(* What CreateStrips is given.                                             *)
(***************************************************************************)
\* the index list has a triangle that is not degenerate
HasTriangle ==
    \E k \in 0..((Len(in_indices) \div 3) - 1) :
        ~IsDegenerate(in_indices[3 * k + 1], in_indices[3 * k + 2],
                      in_indices[3 * k + 3])

\* C29: for an input with a triangle that is not degenerate and listsOnly
\* false, CreateStrips is called with one strip or more, each with one face
\* or more, the assertion nStripCount > 0 does not fail, and no STRIP group
\* without indices is returned.
C29_EmitterPrecondition ==
    (HasTriangle /\ ~bListsOnly) =>
        /\ pc = "CreateStrips" =>
              /\ Len(outStrips) > 0
              /\ \A i \in 1..Len(outStrips) : Len(outStrips[i]) > 0
        /\ "nStripCount > 0" \notin asserts
        /\ pc = "done" =>
              \A g \in 1..Len(primGroups) :
                  primGroups[g].type = "STRIP" => primGroups[g].numIndices > 0

=============================================================================
